---- MODULE Spec2Model ----
(***************************************************************************)
(* Satellite tracker (src/app.js): the live recompute scheduler that       *)
(* displayResults sets up for every submission, the process-wide time      *)
(* selector and observer location, and the submit pipeline that feeds it.  *)
(*                                                                         *)
(* The browser runs one task at a time.  Each event handler or timer       *)
(* callback is a task; the code after an `await` of a value that is not a  *)
(* promise is a microtask, run when the task that queued it returns and    *)
(* before any other task.  inflight holds the queued microtasks.           *)
(***************************************************************************)
EXTENDS Integers, Sequences, FiniteSets, TLC

\* ------------------------------------------------------------------ bounds
\* Wall-clock instants 0..MaxTime (the clock only moves forward).
MaxTime == 1
\* Number of displayResults closures alive at a time (in the page, or kept
\* alive by an interval they armed).
MaxViews == 2

\* ------------------------------------------------- values of the program
\* selectedCustomTime = null
NoTime == -1
\* liveUpdateInterval = undefined (no setInterval result stored yet)
NoHandle == 0
\* resultsContainer.innerHTML = '' : no results view in the page
NoView == 0
\* The interval handles setInterval can return.  A handle that is neither
\* armed nor stored in any closure is unobservable and is handed out again.
Handles == 1..(2 * MaxViews)

\* DEFAULT_LOCATION, in thousandths of a degree and metres.
DEFAULT_LOCATION ==
  [name |-> "Mt Abu Observatory Gurushikhar", latitude |-> 24625, longitude |-> 72715, height |-> 1680]

\* What the user may have typed in the manual-location inputs: parseFloat of
\* each field is a number or NaN (nan = TRUE).
Num(v) == [nan |-> FALSE, v |-> v]
NaN == [nan |-> TRUE, v |-> 0]
ManualInputs ==
  { [lat |-> Num(90000),  lon |-> Num(-180000), alt |-> Num(0)],
    [lat |-> Num(91000),  lon |-> Num(20000),   alt |-> Num(100)],
    [lat |-> Num(10000),  lon |-> Num(181000),  alt |-> Num(100)],
    [lat |-> NaN,         lon |-> Num(20000),   alt |-> Num(100)] }

\* What getCurrentPosition may report: coords.latitude and coords.longitude
\* are degrees within their ranges; coords.altitude is metres, or null (0).
BrowserPositions ==
  { [latitude |-> 51500, longitude |-> -120, altitude |-> 0],
    [latitude |-> -90000, longitude |-> 180000, altitude |-> 58] }

\* What the custom date/time inputs may hold: an empty field, text that
\* new Date() cannot parse, or a valid UTC instant.
CustomTimeInputs ==
  { [kind |-> "empty", t |-> 0], [kind |-> "invalid", t |-> 0] }
    \cup { [kind |-> "valid", t |-> t] : t \in {0, MaxTime} }

\* ------------------------------------------- the propagation collaborator
\* Element sets the user may submit: a healthy orbit, one that decays in the
\* run's time window (propagate returns null from DecayTime on), and one
\* whose satrec is initialised with an error code.
Elements == {"iss", "decaying", "badinit"}
DecayTime == 1

\* satrec.error after twoline2satrec / json2satrec
satrecError(el) == IF el = "badinit" THEN 1 ELSE 0

\* satellite.propagate(satrec, targetDate): null or a position
propagate(el, t) ==
  IF el = "decaying" /\ t >= DecayTime THEN "null" ELSE "position"

\* ------------------------------------------------------------ submissions
\* The text of a submission, by what the submit handler finds in it: its
\* detected format (EMPTY: nothing but blanks, NONE: no accepted shape), the
\* verdict of validateTLE / validateOMM on it, and the elements it encodes.
Inputs ==
  { [fmt |-> "EMPTY", valid |-> FALSE, el |-> "iss"],
    [fmt |-> "NONE",  valid |-> FALSE, el |-> "iss"],
    [fmt |-> "TLE",   valid |-> FALSE, el |-> "iss"],
    [fmt |-> "OMM_JSON", valid |-> FALSE, el |-> "iss"] }
    \cup { [fmt |-> "TLE", valid |-> TRUE, el |-> e] : e \in Elements }
    \cup { [fmt |-> "OMM_KVN", valid |-> TRUE, el |-> "iss"] }

VARIABLES
  selectedCustomTime,       \* global: NoTime (null) or the pinned instant
  currentObserverLocation,  \* closure of the DOMContentLoaded handler
  now,                      \* wall clock, what new Date() returns
  json2satrec,              \* typeof satellite.json2satrec === 'function'
  views,                    \* the displayResults closures still reachable, by id
  timers,                   \* armed intervals: [handle, view whose updatePosition it runs]
  dom,                      \* the view whose HTML is in resultsContainer, or NoView
  display,                  \* the position values shown in the result cards
  label,                    \* the instant shown in #last-update-time of the page
  inputVisible,             \* inputSection.style.display = 'block'
  inflight,                 \* queued microtasks (continuations after await)
  lastStep,                 \* history: what the last task or microtask did
  geolocation,              \* the getCurrentPosition request, and the last location action
  arg,                      \* the text or value a decoding function is applied to
  ret                       \* what that function returned, or NoRet before the call

vars == <<selectedCustomTime, currentObserverLocation, now, json2satrec, views,
          timers, dom, display, label, inputVisible, inflight, lastStep, geolocation,
          arg, ret>>

\* geolocation.pending: navigator.geolocation.getCurrentPosition was called
\* and neither of its callbacks has run; the default and browser buttons are
\* disabled meanwhile.  geolocation.latest is history: the location action
\* the user initiated last (a rejected manual entry selects nothing).
Locating(pending, latest) == [pending |-> pending, latest |-> latest]

\* No decoding function is under analysis; nothing returned yet.
NoArg == [fn |-> "none"]
NoRet == [done |-> FALSE]

NoResult == [el |-> "none", t |-> NoTime, obs |-> DEFAULT_LOCATION]

\* The outcome of a call that may throw: ok with a result, or the error.
Returned(res) == [ok |-> TRUE, err |-> "", res |-> res]
Thrown(err) == [ok |-> FALSE, err |-> err, res |-> NoResult]

\* What a task or microtask did: the handler, the view it acted on, its
\* outcome, the number of calculateSatellitePosition calls it made and
\* whether such a call threw.
Step(op, view, outcome, calcs, failed) ==
  [op |-> op, view |-> view, outcome |-> outcome, calcs |-> calcs, failed |-> failed]

\* ------------------------------------------------------------- operations

\* A computation that reads the clock whatever the time selector holds.
calculateSatellitePositionAtWallClock(data, observerLocation) ==
  LET targetDate == now
  IN  IF data.fmt = "TLE"
      THEN IF satrecError(data.el) # 0
           THEN Thrown("Satellite propagation error")
           ELSE IF propagate(data.el, targetDate) = "null"
                THEN Thrown("Propagation failed - null result returned")
                ELSE Returned([el |-> data.el, t |-> targetDate, obs |-> observerLocation])
      ELSE IF ~data.valid
           THEN Thrown("Invalid OMM format")
           ELSE IF ~json2satrec
                THEN Thrown("OMM format is not supported")
                ELSE IF satrecError(data.el) # 0
                     THEN Thrown("Satellite propagation error from OMM")
                     ELSE IF propagate(data.el, targetDate) = "null"
                          THEN Thrown("Propagation failed - null result returned")
                          ELSE Returned([el |-> data.el, t |-> targetDate, obs |-> observerLocation])

\* calculateSatellitePosition(data1, data2, observerLocation): the format
\* branch, the satrec error checks, the choice of targetDate, propagation
\* and the result record (an opaque function of elements, instant, observer).
calculateSatellitePosition(data, observerLocation) ==
  LET targetDate == IF selectedCustomTime # NoTime THEN selectedCustomTime ELSE now
  IN  IF data.fmt = "TLE"
      THEN IF satrecError(data.el) # 0
           THEN Thrown("Satellite propagation error")
           ELSE IF propagate(data.el, targetDate) = "null"
                THEN Thrown("Propagation failed - null result returned")
                ELSE Returned([el |-> data.el, t |-> targetDate, obs |-> observerLocation])
      ELSE IF ~data.valid
           THEN Thrown("Invalid OMM format")
           ELSE IF ~json2satrec
                THEN Thrown("OMM format is not supported")
                ELSE IF satrecError(data.el) # 0
                     THEN Thrown("Satellite propagation error from OMM")
                     ELSE IF propagate(data.el, targetDate) = "null"
                          THEN Thrown("Propagation failed - null result returned")
                          ELSE Returned([el |-> data.el, t |-> targetDate, obs |-> observerLocation])

\* Tasks that start while a continuation is still queued, as they could if
\* the awaited computation were really asynchronous.
TaskMayStartAnytime == Len(inflight) < 3

\* A task (event handler, timer callback) starts only when the microtasks
\* queued by the previous task have run: `await calculateSatellitePosition`
\* awaits a plain value, so the rest of the async function is a microtask.
TaskMayStart == inflight = <<>>

\* A clearInterval that disarms nothing.
clearIntervalNoop(handle) == timers

\* clearInterval(handle): disarms the handle; no effect on undefined or on a
\* handle already cleared.
clearInterval(handle) == { tm \in timers : tm.handle # handle }

\* The handles setInterval may return next.
FreeHandles ==
  { h \in Handles : /\ \A tm \in timers : tm.handle # h
                    /\ \A v \in DOMAIN views : views[v].liveUpdateInterval # h }

\* setInterval(updatePosition, 2000) called in the closure of view v.
setInterval(h, v) == timers \cup { [handle |-> h, view |-> v] }

\* updatePosition of view v up to its await: the call of
\* calculateSatellitePosition; a throw is caught and logged, a result
\* queues the rest of the function (updateResultsDisplay and the label).
updatePosition(v) ==
  LET r == calculateSatellitePosition(views[v].data, currentObserverLocation)
  IN  inflight' = IF r.ok
                  THEN Append(inflight, [kind |-> "publish", view |-> v, data |-> views[v].data, res |-> r.res])
                  ELSE inflight

updateFails(v) ==
  ~calculateSatellitePosition(views[v].data, currentObserverLocation).ok

PageLoaded ==
  /\ selectedCustomTime = NoTime
  /\ currentObserverLocation = DEFAULT_LOCATION
  /\ now = 0
  /\ json2satrec \in BOOLEAN
  /\ views = <<>>
  /\ timers = {}
  /\ dom = NoView
  /\ display = NoResult
  /\ label = NoTime
  /\ inputVisible = TRUE
  /\ inflight = <<>>
  /\ lastStep = Step("load", NoView, "none", 0, FALSE)
  /\ geolocation = Locating(FALSE, "default")

Init ==
  /\ PageLoaded
  /\ arg = NoArg
  /\ ret = NoRet

\* The wall clock moves on.
Advance ==
  /\ TaskMayStart
  /\ UNCHANGED <<arg, ret, geolocation>>
  /\ now < MaxTime
  /\ now' = now + 1
  /\ lastStep' = Step("advance", NoView, "none", 0, FALSE)
  /\ UNCHANGED <<selectedCustomTime, currentObserverLocation, json2satrec, views,
                 timers, dom, display, label, inputVisible, inflight>>

\* useDefaultLocationBtn click; the button is disabled while a geolocation
\* request is pending.
UseDefaultLocation ==
  /\ TaskMayStart
  /\ UNCHANGED <<arg, ret>>
  /\ ~geolocation.pending
  /\ geolocation' = Locating(FALSE, "default")
  /\ currentObserverLocation' = DEFAULT_LOCATION
  /\ lastStep' = Step("useDefaultLocation", NoView, "set", 0, FALSE)
  /\ UNCHANGED <<selectedCustomTime, now, json2satrec, views, timers, dom, display,
                 label, inputVisible, inflight>>

\* A manual location handler that stores the fields without testing them.
UseManualLocationUnvalidated(m) ==
  /\ TaskMayStart
  /\ UNCHANGED <<arg, ret>>
  /\ currentObserverLocation' =
       [name |-> "Manual Coordinates", latitude |-> m.lat.v,
        longitude |-> m.lon.v, height |-> m.alt.v]
  /\ geolocation' = [geolocation EXCEPT !.latest = "manual"]
  /\ lastStep' = Step("useManualLocation", NoView, "set", 0, FALSE)
  /\ UNCHANGED <<selectedCustomTime, now, json2satrec, views, timers, dom, display,
                 label, inputVisible, inflight>>

\* useManualLocationBtn click with the parsed input fields m.  The button is
\* never disabled.
UseManualLocation(m) ==
  /\ TaskMayStart
  /\ UNCHANGED <<arg, ret>>
  /\ IF m.lat.nan \/ m.lon.nan \/ m.alt.nan
     THEN /\ lastStep' = Step("useManualLocation", NoView, "Please enter valid coordinates", 0, FALSE)
          /\ UNCHANGED <<currentObserverLocation, geolocation>>
     ELSE IF m.lat.v < -90000 \/ m.lat.v > 90000
     THEN /\ lastStep' = Step("useManualLocation", NoView, "Latitude must be between -90 and 90 degrees", 0, FALSE)
          /\ UNCHANGED <<currentObserverLocation, geolocation>>
     ELSE IF m.lon.v < -180000 \/ m.lon.v > 180000
     THEN /\ lastStep' = Step("useManualLocation", NoView, "Longitude must be between -180 and 180 degrees", 0, FALSE)
          /\ UNCHANGED <<currentObserverLocation, geolocation>>
     ELSE /\ currentObserverLocation' =
               [name |-> "Manual Coordinates", latitude |-> m.lat.v,
                longitude |-> m.lon.v, height |-> m.alt.v]
          /\ geolocation' = [geolocation EXCEPT !.latest = "manual"]
          /\ lastStep' = Step("useManualLocation", NoView, "set", 0, FALSE)
  /\ UNCHANGED <<selectedCustomTime, now, json2satrec, views, timers, dom, display,
                 label, inputVisible, inflight>>

\* useBrowserLocationBtn click: without navigator.geolocation an error is
\* shown; with it getCurrentPosition is called and the default and browser
\* buttons are disabled until one of its callbacks runs.
UseBrowserLocation(supported) ==
  /\ TaskMayStart
  /\ UNCHANGED <<arg, ret>>
  /\ ~geolocation.pending
  /\ IF supported
     THEN /\ geolocation' = Locating(TRUE, "browser")
          /\ lastStep' = Step("useBrowserLocation", NoView, "requested", 0, FALSE)
     ELSE /\ lastStep' = Step("useBrowserLocation", NoView,
                              "Geolocation is not supported by this browser.", 0, FALSE)
          /\ UNCHANGED geolocation
  /\ UNCHANGED <<selectedCustomTime, currentObserverLocation, now, json2satrec, views,
                 timers, dom, display, label, inputVisible, inflight>>

\* The success callback of getCurrentPosition, a task of its own: the
\* location becomes the position found (altitude in metres, 0.07 km when
\* coords.altitude is null or 0) and the two buttons are enabled again.
GeolocationSuccess(position) ==
  /\ TaskMayStart
  /\ UNCHANGED <<arg, ret>>
  /\ geolocation.pending
  /\ currentObserverLocation' =
       [name |-> "Browser Location", latitude |-> position.latitude,
        longitude |-> position.longitude,
        height |-> IF position.altitude # 0 THEN position.altitude ELSE 70]
  /\ geolocation' = [geolocation EXCEPT !.pending = FALSE]
  /\ lastStep' = Step("geolocationSuccess", NoView, "set", 0, FALSE)
  /\ UNCHANGED <<selectedCustomTime, now, json2satrec, views, timers, dom, display,
                 label, inputVisible, inflight>>

\* The error callback of getCurrentPosition: the error is shown, the two
\* buttons are enabled again, the location stays.
GeolocationError ==
  /\ TaskMayStart
  /\ UNCHANGED <<arg, ret>>
  /\ geolocation.pending
  /\ geolocation' = [geolocation EXCEPT !.pending = FALSE]
  /\ lastStep' = Step("geolocationError", NoView, "Geolocation error", 0, FALSE)
  /\ UNCHANGED <<selectedCustomTime, currentObserverLocation, now, json2satrec, views,
                 timers, dom, display, label, inputVisible, inflight>>

\* useCustomTimeBtn click with the date/time fields holding c
UseCustomTime(c) ==
  /\ TaskMayStart
  /\ UNCHANGED <<arg, ret, geolocation>>
  /\ IF c.kind = "empty"
     THEN /\ lastStep' = Step("useCustomTime", NoView, "Please select both date and time", 0, FALSE)
          /\ UNCHANGED selectedCustomTime
     ELSE IF c.kind = "invalid"
     THEN /\ lastStep' = Step("useCustomTime", NoView, "Invalid date or time format", 0, FALSE)
          /\ UNCHANGED selectedCustomTime
     ELSE /\ selectedCustomTime' = c.t
          /\ lastStep' = Step("useCustomTime", NoView, "set", 0, FALSE)
  /\ UNCHANGED <<currentObserverLocation, now, json2satrec, views, timers, dom,
                 display, label, inputVisible, inflight>>

\* resetToCurrentTimeBtn click
ResetToCurrentTime ==
  /\ TaskMayStart
  /\ UNCHANGED <<arg, ret, geolocation>>
  /\ selectedCustomTime' = NoTime
  /\ lastStep' = Step("resetToCurrentTime", NoView, "set", 0, FALSE)
  /\ UNCHANGED <<currentObserverLocation, now, json2satrec, views, timers, dom,
                 display, label, inputVisible, inflight>>

\* The closures that stay reachable once the results HTML is replaced or
\* removed: those whose interval is still armed.  A closure referenced by no
\* listener in the page and by no timer is garbage.
Reachable == { v \in DOMAIN views : \E tm \in timers : tm.view = v }

\* The closures left once the page holds view keep and what is unreachable
\* is collected, under timers tms.
collect(vs, tms, keep) ==
  [ v \in { x \in DOMAIN vs : x = keep \/ \E tm \in tms : tm.view = x } |-> vs[v] ]

\* submitBtn click with the textarea holding input, up to its await: format
\* detection, validation, and the first calculateSatellitePosition call.
\* A throw is caught and shown; a result queues the call of displayResults.
Submit(input) ==
  /\ TaskMayStart
  /\ UNCHANGED <<arg, ret, geolocation>>
  /\ LET r == calculateSatellitePosition(input, currentObserverLocation)
         rejected(msg) == /\ lastStep' = Step("submit", NoView, msg, 0, FALSE)
                          /\ UNCHANGED inflight
     IN  IF input.fmt = "EMPTY"
         THEN rejected("Please enter TLE or OMM data")
         ELSE IF input.fmt = "TLE"
         THEN IF ~input.valid
              THEN rejected("Invalid TLE format. Please check the TLE data.")
              ELSE IF r.ok
                   THEN /\ Cardinality(Reachable) < MaxViews
                        /\ inflight' = Append(inflight, [kind |-> "display", view |-> NoView, data |-> input, res |-> r.res])
                        /\ lastStep' = Step("submit", NoView, "computed", 1, FALSE)
                   ELSE /\ lastStep' = Step("submit", NoView, "Error calculating satellite position", 1, TRUE)
                        /\ UNCHANGED inflight
         ELSE IF input.fmt \in {"OMM_JSON", "OMM_KVN"}
         THEN IF ~json2satrec
              THEN rejected("OMM format is not supported in this version of satellite.js")
              ELSE IF ~input.valid
              THEN rejected("Invalid OMM format")
              ELSE IF r.ok
                   THEN /\ Cardinality(Reachable) < MaxViews
                        /\ inflight' = Append(inflight, [kind |-> "display", view |-> NoView, data |-> input, res |-> r.res])
                        /\ lastStep' = Step("submit", NoView, "computed", 1, FALSE)
                   ELSE /\ lastStep' = Step("submit", NoView, "Error calculating satellite position", 1, TRUE)
                        /\ UNCHANGED inflight
         ELSE rejected("Invalid format. Please enter either TLE or OMM data.")
  /\ UNCHANGED <<selectedCustomTime, currentObserverLocation, now, json2satrec, views,
                 timers, dom, display, label, inputVisible>>

\* displayResults that arms the interval whatever the time selector holds.
DisplayResultsAlwaysArms ==
  /\ inflight # <<>>
  /\ UNCHANGED <<arg, ret, geolocation>>
  /\ Head(inflight).kind = "display"
  /\ FreeHandles # {}
  /\ LET c == Head(inflight)
         v == CHOOSE x \in (1..MaxViews) \ Reachable :
                \A y \in (1..MaxViews) \ Reachable : x <= y
         h == CHOOSE x \in FreeHandles : \A y \in FreeHandles : x <= y
         fixed == selectedCustomTime # NoTime
         opened == [data |-> c.data,
                    liveUpdateInterval |-> h,
                    isLiveUpdating |-> TRUE,
                    disabled |-> fixed]
     IN  /\ views' = [ x \in Reachable \cup {v} |-> IF x = v THEN opened ELSE views[x] ]
         /\ label' = IF fixed THEN selectedCustomTime ELSE now
         /\ timers' = setInterval(h, v)
         /\ dom' = v
         /\ display' = c.res
         /\ inputVisible' = FALSE
         /\ lastStep' = Step("displayResults", v, IF fixed THEN "fixed" ELSE "live", 0, FALSE)
  /\ inflight' = Tail(inflight)
  /\ UNCHANGED <<selectedCustomTime, currentObserverLocation, now, json2satrec>>

\* displayResults(position, data1, data2), the rest of the submit handler:
\* replaces the results HTML, hides the input section, creates the closure
\* (liveUpdateInterval, isLiveUpdating = true) and, unless a custom time is
\* selected, arms the interval; with a custom time the toggle is disabled.
DisplayResults ==
  /\ inflight # <<>>
  /\ UNCHANGED <<arg, ret, geolocation>>
  /\ Head(inflight).kind = "display"
  /\ FreeHandles # {}
  /\ LET c == Head(inflight)
         v == CHOOSE x \in (1..MaxViews) \ Reachable :
                \A y \in (1..MaxViews) \ Reachable : x <= y
         h == CHOOSE x \in FreeHandles : \A y \in FreeHandles : x <= y
         fixed == selectedCustomTime # NoTime
         opened == [data |-> c.data,
                    liveUpdateInterval |-> IF fixed THEN NoHandle ELSE h,
                    isLiveUpdating |-> TRUE,
                    disabled |-> fixed]
     IN  /\ views' = [ x \in Reachable \cup {v} |-> IF x = v THEN opened ELSE views[x] ]
         /\ label' = IF fixed THEN selectedCustomTime ELSE now
         /\ timers' = IF fixed THEN timers ELSE setInterval(h, v)
         /\ dom' = v
         /\ display' = c.res
         /\ inputVisible' = FALSE
         /\ lastStep' = Step("displayResults", v, IF fixed THEN "fixed" ELSE "live", 0, FALSE)
  /\ inflight' = Tail(inflight)
  /\ UNCHANGED <<selectedCustomTime, currentObserverLocation, now, json2satrec>>

\* A resume branch that does not look at the time selector.
startAllowedAlways == TRUE

\* The condition of the toggle handler's resume branch: !selectedCustomTime
startAllowed == selectedCustomTime = NoTime

\* A toggle handler whose resume branch arms the interval without the
\* immediate updatePosition() call.
ToggleClickNoImmediateUpdate ==
  /\ TaskMayStart
  /\ UNCHANGED <<arg, ret, geolocation>>
  /\ dom # NoView
  /\ ~views[dom].disabled
  /\ IF views[dom].isLiveUpdating
     THEN /\ timers' = clearInterval(views[dom].liveUpdateInterval)
          /\ views' = [views EXCEPT ![dom].isLiveUpdating = FALSE]
          /\ lastStep' = Step("toggle", dom, "paused", 0, FALSE)
          /\ UNCHANGED inflight
     ELSE IF startAllowed
     THEN /\ FreeHandles # {}
          /\ LET h == CHOOSE x \in FreeHandles : \A y \in FreeHandles : x <= y
             IN  /\ timers' = setInterval(h, dom)
                 /\ views' = [views EXCEPT ![dom].liveUpdateInterval = h,
                                           ![dom].isLiveUpdating = TRUE]
          /\ UNCHANGED inflight
          /\ lastStep' = Step("toggle", dom, "resumed", 1, updateFails(dom))
     ELSE /\ lastStep' = Step("toggle", dom, "refused", 0, FALSE)
          /\ UNCHANGED <<timers, views, inflight>>
  /\ UNCHANGED <<selectedCustomTime, currentObserverLocation, now, json2satrec, dom,
                 display, label, inputVisible>>

\* toggleBtn click in the results view that is in the page.  A disabled
\* button dispatches no click.
ToggleClick ==
  /\ TaskMayStart
  /\ UNCHANGED <<arg, ret, geolocation>>
  /\ dom # NoView
  /\ ~views[dom].disabled
  /\ IF views[dom].isLiveUpdating
     THEN /\ timers' = clearInterval(views[dom].liveUpdateInterval)
          /\ views' = [views EXCEPT ![dom].isLiveUpdating = FALSE]
          /\ lastStep' = Step("toggle", dom, "paused", 0, FALSE)
          /\ UNCHANGED inflight
     ELSE IF startAllowed
     THEN /\ FreeHandles # {}
          /\ LET h == CHOOSE x \in FreeHandles : \A y \in FreeHandles : x <= y
             IN  /\ timers' = setInterval(h, dom)
                 /\ views' = [views EXCEPT ![dom].liveUpdateInterval = h,
                                           ![dom].isLiveUpdating = TRUE]
          /\ updatePosition(dom)
          /\ lastStep' = Step("toggle", dom, "resumed", 1, updateFails(dom))
     ELSE /\ lastStep' = Step("toggle", dom, "refused", 0, FALSE)
          /\ UNCHANGED <<timers, views, inflight>>
  /\ UNCHANGED <<selectedCustomTime, currentObserverLocation, now, json2satrec, dom,
                 display, label, inputVisible>>

\* A tick whose failure clears the interval that fired it.
TickStopsOnError(tm) ==
  /\ TaskMayStart
  /\ UNCHANGED <<arg, ret, geolocation>>
  /\ tm \in timers
  /\ updatePosition(tm.view)
  /\ lastStep' = Step("tick", tm.view, "fired", 1, updateFails(tm.view))
  /\ timers' = IF updateFails(tm.view) THEN clearInterval(tm.handle) ELSE timers
  /\ UNCHANGED <<selectedCustomTime, currentObserverLocation, now, json2satrec, views,
                 dom, display, label, inputVisible>>

\* A tick whose failure blanks the result cards and stamps the label.
TickBlanksOnError(tm) ==
  /\ TaskMayStart
  /\ UNCHANGED <<arg, ret, geolocation>>
  /\ tm \in timers
  /\ updatePosition(tm.view)
  /\ lastStep' = Step("tick", tm.view, "fired", 1, updateFails(tm.view))
  /\ display' = IF updateFails(tm.view) THEN NoResult ELSE display
  /\ label' = IF updateFails(tm.view) THEN now ELSE label
  /\ UNCHANGED <<selectedCustomTime, currentObserverLocation, now, json2satrec, views,
                 timers, dom, inputVisible>>

\* An armed interval fires: updatePosition of the view that armed it.
Tick(tm) ==
  /\ TaskMayStart
  /\ UNCHANGED <<arg, ret, geolocation>>
  /\ tm \in timers
  /\ updatePosition(tm.view)
  /\ lastStep' = Step("tick", tm.view, "fired", 1, updateFails(tm.view))
  /\ UNCHANGED <<selectedCustomTime, currentObserverLocation, now, json2satrec, views,
                 timers, dom, display, label, inputVisible>>

\* The rest of updatePosition after its await: updateResultsDisplay writes
\* the result cards found by document.querySelector, then the label of the
\* view's own lastUpdateTime element is set.  With no results HTML in the
\* page querySelector returns null, the first write throws, and the catch of
\* updatePosition logs it.
Publish ==
  /\ inflight # <<>>
  /\ UNCHANGED <<arg, ret, geolocation>>
  /\ Head(inflight).kind = "publish"
  /\ LET c == Head(inflight)
     IN  IF dom = NoView
         THEN /\ lastStep' = Step("publish", c.view, "Error in live update", 0, TRUE)
              /\ UNCHANGED <<display, label>>
         ELSE /\ display' = c.res
              /\ label' = IF c.view = dom THEN now ELSE label
              /\ lastStep' = Step("publish", c.view, "published", 0, FALSE)
  /\ inflight' = Tail(inflight)
  /\ UNCHANGED <<selectedCustomTime, currentObserverLocation, now, json2satrec, views,
                 timers, dom, inputVisible>>

\* A Back to Input handler that hides the results and leaves the interval
\* armed.
BackToInputKeepsTimer ==
  /\ TaskMayStart
  /\ UNCHANGED <<arg, ret, geolocation>>
  /\ dom # NoView
  /\ timers' = timers
  /\ views' = collect(views, timers', NoView)
  /\ inputVisible' = TRUE
  /\ dom' = NoView
  /\ display' = NoResult
  /\ label' = NoTime
  /\ lastStep' = Step("backToInput", dom, "torn down", 0, FALSE)
  /\ UNCHANGED <<selectedCustomTime, currentObserverLocation, now, json2satrec,
                 inflight>>

\* backToInputBtn click in the results view that is in the page.
BackToInput ==
  /\ TaskMayStart
  /\ UNCHANGED <<arg, ret, geolocation>>
  /\ dom # NoView
  /\ timers' = clearInterval(views[dom].liveUpdateInterval)
  /\ views' = collect(views, timers', NoView)
  /\ inputVisible' = TRUE
  /\ dom' = NoView
  /\ display' = NoResult
  /\ label' = NoTime
  /\ lastStep' = Step("backToInput", dom, "torn down", 0, FALSE)
  /\ UNCHANGED <<selectedCustomTime, currentObserverLocation, now, json2satrec,
                 inflight>>

\* The scheduler and what drives it: the clock, the time selector, the
\* submissions and the controls of the results view.
SchedulerNext ==
  \/ Advance
  \/ \E c \in CustomTimeInputs : UseCustomTime(c)
  \/ ResetToCurrentTime
  \/ \E input \in Inputs : Submit(input)
  \/ DisplayResults
  \/ ToggleClick
  \/ \E tm \in timers : Tick(tm)
  \/ Publish
  \/ BackToInput

\* The handlers that select the observer location.
LocationNext ==
  \/ UseDefaultLocation
  \/ \E m \in ManualInputs : UseManualLocation(m)
  \/ \E supported \in BOOLEAN : UseBrowserLocation(supported)
  \/ \E position \in BrowserPositions : GeolocationSuccess(position)
  \/ GeolocationError

\* Every handler of the page.
Next ==
  \/ SchedulerNext
  \/ LocationNext

Spec == Init /\ [][Next]_vars

\* The page with the observer location left as it is: no scheduler
\* transition reads it, it is only copied into the result of a recompute.
SchedulerSpec == Init /\ [][SchedulerNext]_vars

\* The page with nothing submitted: the location handlers and the clock.
LocationSpec == Init /\ [][LocationNext \/ Advance]_vars

\* ------------------------------------------------------------------ claims

\* The armed intervals that run updatePosition of view v.
TimersOf(v) == { tm \in timers : tm.view = v }

ViewIds == DOMAIN views

\* C1: after pause() no recompute tick of that submission occurs until
\* start(): a paused view has no armed interval, and an interval that fires
\* belongs to a view that is live updating.
C1_NoTickWhilePaused ==
  /\ \A v \in ViewIds : ~views[v].isLiveUpdating => TimersOf(v) = {}
  /\ lastStep.op = "tick" => views[lastStep.view].isLiveUpdating

\* C1 witness: the clock moves on while the view in the page is paused.
C1_Witness ==
  /\ lastStep.op = "advance"
  /\ dom # NoView
  /\ ~views[dom].isLiveUpdating

\* C2: selecting a valid custom time while the view in the page is running
\* cancels its interval.
C2_FixedSelectionPauses ==
  (lastStep.op = "useCustomTime" /\ lastStep.outcome = "set" /\ dom # NoView)
    => TimersOf(dom) = {}

\* C3: a toggle click while a custom time is selected never starts the
\* scheduler: the view is left paused with no interval armed and no
\* recompute made or queued.
C3_StartRefusedWhileFixed ==
  (lastStep.op = "toggle" /\ selectedCustomTime # NoTime)
    => /\ ~views[lastStep.view].isLiveUpdating
       /\ TimersOf(lastStep.view) = {}
       /\ lastStep.calcs = 0
       /\ inflight = <<>>

\* C3 witness: a click on the toggle of a paused view with a custom time
\* selected.
C3_Witness ==
  /\ lastStep.op = "toggle"
  /\ lastStep.outcome = "refused"
  /\ selectedCustomTime # NoTime

\* C4: at most one recompute interval is armed in the whole application.
C4_AtMostOneTimer == Cardinality(timers) <= 1

\* C5: a tick whose calculateSatellitePosition throws leaves the scheduler
\* running: the view is still live updating, its interval is still armed
\* and the next fire is not held back.
C5_FailedTickKeepsRunning ==
  (lastStep.op = "tick" /\ lastStep.failed)
    => /\ TimersOf(lastStep.view) # {}
       /\ views[lastStep.view].isLiveUpdating
       /\ TaskMayStart

\* C5 witness: a tick has failed.
C5_Witness == lastStep.op = "tick" /\ lastStep.failed

\* C6: a recompute that fails writes nothing: the result cards and the
\* last-update label are as they were before it.
C6_FailedTickWritesNothing ==
  [][(lastStep'.failed /\ lastStep'.op \in {"tick", "toggle", "publish"})
       => (display' = display /\ label' = label)]_vars

\* C6 witness: a tick has failed while a result is on display.
C6_Witness ==
  /\ lastStep.op = "tick"
  /\ lastStep.failed
  /\ dom # NoView
  /\ display # NoResult

\* C7: start() leaves the view running with one interval armed and has made
\* exactly one recompute within the click itself (its publication is the only
\* thing queued, unless it threw); pause() leaves the view paused with no
\* interval armed; with no custom time selected every toggle click is one of
\* the two.
C7_StartAndPause ==
  /\ (lastStep.op = "toggle" /\ lastStep.outcome = "resumed")
       => /\ views[lastStep.view].isLiveUpdating
          /\ Cardinality(TimersOf(lastStep.view)) = 1
          /\ lastStep.calcs = 1
          /\ IF lastStep.failed
             THEN inflight = <<>>
             ELSE /\ Len(inflight) = 1
                  /\ inflight[1].kind = "publish"
                  /\ inflight[1].view = lastStep.view
  /\ (lastStep.op = "toggle" /\ lastStep.outcome = "paused")
       => /\ ~views[lastStep.view].isLiveUpdating
          /\ TimersOf(lastStep.view) = {}
  /\ (lastStep.op = "toggle" /\ selectedCustomTime = NoTime)
       => lastStep.outcome \in {"paused", "resumed"}

\* C7 witness: a paused view has been resumed and its immediate recompute
\* is about to be published.
C7_Witness ==
  /\ lastStep.op = "toggle"
  /\ lastStep.outcome = "resumed"
  /\ ~lastStep.failed

\* C8: recomputes never overlap: at most one continuation is queued, and it
\* was queued by the task that has just run (no tick, immediate recompute or
\* user action has begun since).
C8_TicksNeverOverlap ==
  /\ Len(inflight) <= 1
  /\ inflight # <<>> => lastStep.op \in {"tick", "toggle", "submit"}

\* C8 witness: a tick has computed a position that is not yet published.
C8_Witness == inflight # <<>> /\ lastStep.op = "tick"

\* C9: a view opened with a custom time selected never has an interval: none
\* is armed for it, no tick or publication is ever its own, and the position
\* it shows when opened is the one computed once, by the submission, for the
\* selected instant.
C9_FixedViewNeverTicks ==
  /\ \A v \in ViewIds :
       views[v].disabled
         => TimersOf(v) = {} /\ views[v].liveUpdateInterval = NoHandle
  /\ lastStep.op \in {"tick", "publish"} => ~views[lastStep.view].disabled
  /\ (lastStep.op = "submit" /\ inflight # <<>>)
       => /\ lastStep.calcs = 1
          /\ selectedCustomTime # NoTime => inflight[1].res.t = selectedCustomTime
  /\ (lastStep.op = "displayResults" /\ selectedCustomTime # NoTime)
       => /\ views[dom].disabled
          /\ display.t = selectedCustomTime
          /\ label = selectedCustomTime

\* C9 witness: the clock moves on while a view opened with a custom time is
\* in the page and the custom time is still selected.
C9_Witness ==
  /\ lastStep.op = "advance"
  /\ dom # NoView
  /\ views[dom].disabled
  /\ selectedCustomTime # NoTime

\* C10: once the custom time is cleared, the view in the page is running or
\* a toggle click starts it.
C10_ClearRestoresLive ==
  (lastStep.op = "resetToCurrentTime" /\ dom # NoView)
    => \/ TimersOf(dom) # {}
       \/ ~views[dom].disabled /\ ~views[dom].isLiveUpdating

\* ============================================================ input decoding
\* The functions that read the submitted text: validateTLE, validateOMM,
\* parseOMMKVN and the head of the submit handler, applied to concrete text.

\* ------------------------------------------------------------------ bounds
\* The longest TLE line tried (a full line has 69 characters).
MaxLineLen == 69

\* ------------------------------------------------- text as JavaScript sees it
\* A string is the sequence of its characters.
WhiteSpace == {" ", "\t", "\n"}
Digits == {"0", "1", "2", "3", "4", "5", "6", "7", "8", "9"}

\* String.prototype.trim
RECURSIVE trimStart(_)
trimStart(s) == IF s # <<>> /\ Head(s) \in WhiteSpace THEN trimStart(Tail(s)) ELSE s
RECURSIVE trimEnd(_)
trimEnd(s) ==
  IF s # <<>> /\ s[Len(s)] \in WhiteSpace THEN trimEnd(SubSeq(s, 1, Len(s) - 1)) ELSE s
trim(s) == trimEnd(trimStart(s))

\* String.prototype.startsWith / endsWith / includes
startsWith(s, p) == Len(s) >= Len(p) /\ SubSeq(s, 1, Len(p)) = p
endsWith(s, p) == Len(s) >= Len(p) /\ SubSeq(s, Len(s) - Len(p) + 1, Len(s)) = p
includes(s, p) == \E i \in 0..(Len(s) - Len(p)) : SubSeq(s, i + 1, i + Len(p)) = p

\* The number of digits at the head of s.
RECURSIVE leadingDigits(_)
leadingDigits(s) ==
  IF s # <<>> /\ Head(s) \in Digits THEN 1 + leadingDigits(Tail(s)) ELSE 0

\* String.prototype.match found nothing (null); a capture of \d{4,5} is
\* never empty.
NoMatch == <<>>

\* s.match(/^1 (\d{4,5})/)[1] with the marker "1 " or "2 ": the greedy run of
\* four or five digits right after the marker, or NoMatch.
matchCatalog(s, marker) ==
  IF ~startsWith(s, marker) THEN NoMatch
  ELSE LET rest == SubSeq(s, Len(marker) + 1, Len(s))
           n == leadingDigits(rest)
       IN  IF n < 4 THEN NoMatch ELSE SubSeq(rest, 1, IF n > 5 THEN 5 ELSE n)

\* ------------------------------------------------------------- validateTLE
\* The least length of a TLE line.
TLE_MIN_LENGTH == 68

validateTLEIgnoringCatalog(tleLine1, tleLine2) ==
  IF Len(tleLine1) < TLE_MIN_LENGTH \/ Len(tleLine2) < TLE_MIN_LENGTH THEN FALSE
  ELSE IF ~startsWith(trim(tleLine1), <<"1", " ">>) \/ ~startsWith(trim(tleLine2), <<"2", " ">>) THEN FALSE
  ELSE TRUE

\* validateTLE(tleLine1, tleLine2), return by return.
validateTLE(tleLine1, tleLine2) ==
  IF Len(tleLine1) < TLE_MIN_LENGTH \/ Len(tleLine2) < TLE_MIN_LENGTH THEN FALSE
  ELSE IF ~startsWith(trim(tleLine1), <<"1", " ">>) \/ ~startsWith(trim(tleLine2), <<"2", " ">>) THEN FALSE
  ELSE LET tle1Match == matchCatalog(trim(tleLine1), <<"1", " ">>)
           tle2Match == matchCatalog(trim(tleLine2), <<"2", " ">>)
       IN  IF tle1Match = NoMatch \/ tle2Match = NoMatch THEN FALSE
           ELSE IF tle1Match # tle2Match THEN FALSE
           ELSE TRUE

\* head, filled up to n characters with c.
padEnd(head, n, c) == head \o [i \in 1..(n - Len(head)) |-> c]

\* The lines validateTLE is tried on.  Their heads (TleHeads): markers right
\* and wrong, catalog numbers of three to six digits, equal and different,
\* with and without white space before the marker; each one character
\* short, exactly long enough, and longer.
TleLines ==
  LET TleHeads ==
        { <<"1", " ", "2", "5", "5", "4", "4", "U">>, <<"2", " ", "2", "5", "5", "4", "4", " ">>, <<"2", " ", "2", "5", "5", "4", "5", " ">>, <<"1", " ", "2", "5", "5", "4", "U">>, <<"2", " ", "2", "5", "5", "4", " ">>,
          <<"1", " ", "2", "5", "5", "U">>, <<"2", " ", "2", "5", "5", " ">>, <<"1", " ", "2", "5", "5", "4", "4", "0">>, <<"2", " ", "2", "5", "5", "4", "4", "9">>,
          <<" ", "1", " ", "2", "5", "5", "4", "4", "U">>, <<" ", "2", " ", "2", "5", "5", "4", "4", " ">>, <<"1", " ", " ", "2", "5", "5", "4", "4">>, <<"1", " ", "A", "B", "C", "D", "E">>, <<"2", " ", "A", "B", "C", "D", "E">>,
          <<"1", "2", "5", "5", "4", "4", " ", "U">>, <<"1", " ", "2", "5", "5", "4", "4", " ", "\t">> }
  IN  { padEnd(h, n, ".") : h \in TleHeads, n \in (TLE_MIN_LENGTH - 1)..MaxLineLen }
      \cup { padEnd(<<"2", " ", "2", "5", "5", "4", "4", " ">>, TLE_MIN_LENGTH, " "), padEnd(<<" ", "1", " ", "2", "5", "5", "4", "4", "U">>, TLE_MIN_LENGTH, " ") }

\* ------------------------------------------------------- JavaScript values
\* A number: finite m / 10^e (e decimals, written without trailing zeros),
\* an infinity (m is its sign) or NaN.
RECURSIVE finite(_, _)
finite(m, e) ==
  IF e > 0 /\ m % 10 = 0 THEN finite(m \div 10, e - 1)
  ELSE [cls |-> "finite", m |-> m, e |-> e]
PosInfinity == [cls |-> "infinite", m |-> 1, e |-> 0]
NegInfinity == [cls |-> "infinite", m |-> -1, e |-> 0]
NotANumber == [cls |-> "nan", m |-> 0, e |-> 0]

\* The values of the language, by typeof (null apart).  An object is the
\* function from its own property names to their values.
JSUndefined == [t |-> "undefined"]
JSNull == [t |-> "null"]
JSBoolean(b) == [t |-> "boolean", b |-> b]
JSNumber(n) == [t |-> "number", n |-> n]
JSString(s) == [t |-> "string", s |-> s]
JSObject(o) == [t |-> "object", o |-> o]

\* typeof v
typeof(v) == IF v.t = "null" THEN "object" ELSE v.t

\* The number a sequence of digits writes (0 for none).
RECURSIVE digitsValue(_)
digitsValue(ds) ==
  LET digitValue(c) ==
        CASE c = "0" -> 0 [] c = "1" -> 1 [] c = "2" -> 2 [] c = "3" -> 3 [] c = "4" -> 4
          [] c = "5" -> 5 [] c = "6" -> 6 [] c = "7" -> 7 [] c = "8" -> 8 [] c = "9" -> 9
  IN  IF ds = <<>> THEN 0
      ELSE 10 * digitsValue(SubSeq(ds, 1, Len(ds) - 1)) + digitValue(ds[Len(ds)])

\* The digits after the point that follows the first ni characters of v,
\* or -1 when no point stands there.
fractionDigits(v, ni) ==
  IF Len(v) > ni /\ v[ni + 1] = "." THEN leadingDigits(SubSeq(v, ni + 2, Len(v))) ELSE 0 - 1

\* The literal of ni digits before the point and nf after it at the head
\* of v, with sl characters of sign before it.
literalOf(v, neg, sl, ni, nf) ==
  IF startsWith(v, <<"I", "n", "f", "i", "n", "i", "t", "y">>)
  THEN [len |-> sl + 8, val |-> IF neg THEN NegInfinity ELSE PosInfinity]
  ELSE IF ni = 0 /\ nf <= 0 THEN [len |-> 0, val |-> NotANumber]
  ELSE IF nf < 0
  THEN [len |-> sl + ni,
        val |-> finite((IF neg THEN 0 - 1 ELSE 1) * digitsValue(SubSeq(v, 1, ni)), 0)]
  ELSE [len |-> sl + ni + 1 + nf,
        val |-> finite((IF neg THEN 0 - 1 ELSE 1)
                         * digitsValue(SubSeq(v, 1, ni) \o SubSeq(v, ni + 2, ni + 1 + nf)),
                       nf)]

\* The longest decimal literal at the head of u (sign, digits, point,
\* digits, or Infinity): the characters it takes (0 when there is none) and
\* its value.  No text tried writes an exponent or a hexadecimal literal.
decimalLiteral(u) ==
  LET unsignedLiteral(v, neg, sl, ni) == literalOf(v, neg, sl, ni, fractionDigits(v, ni))
  IN  IF u # <<>> /\ Head(u) \in {"+", "-"}
      THEN unsignedLiteral(Tail(u), Head(u) = "-", 1, leadingDigits(Tail(u)))
      ELSE unsignedLiteral(u, FALSE, 0, leadingDigits(u))

\* String(v) for the values that are no string (only whether it starts a
\* number matters): a number writes itself, the others write a word.
\* parseFloat(v): the number at the head of String(v), white space skipped.
parseFloat(v) ==
  CASE v.t = "number" -> JSNumber(v.n)
    [] v.t = "string" -> JSNumber(decimalLiteral(trimStart(v.s)).val)
    [] OTHER -> JSNumber(NotANumber)

\* Number(v).  A string must be a numeric literal as a whole once trimmed
\* (wholeLiteral: s is the trimmed string and d its leading literal); the
\* empty string is 0.
ToNumber(v) ==
  LET wholeLiteral(s, d) ==
        IF s = <<>> THEN finite(0, 0)
        ELSE IF d.len = Len(s) THEN d.val ELSE NotANumber
  IN
  CASE v.t = "number" -> v.n
    [] v.t = "string" -> wholeLiteral(trim(v.s), decimalLiteral(trim(v.s)))
    [] v.t = "boolean" -> IF v.b THEN finite(1, 0) ELSE finite(0, 0)
    [] v.t = "null" -> finite(0, 0)
    [] OTHER -> NotANumber

\* isNaN(v)
isNaN(v) == ToNumber(v).cls = "nan"

\* ------------------------------------------------------------- parseOMMKVN
UpperCase ==
  {"A", "B", "C", "D", "E", "F", "G", "H", "I", "J", "K", "L", "M",
   "N", "O", "P", "Q", "R", "S", "T", "U", "V", "W", "X", "Y", "Z"}

\* The place of the first c in s, or 0.
indexOf(s, c) ==
  IF \E i \in 1..Len(s) : s[i] = c
  THEN CHOOSE i \in 1..Len(s) : s[i] = c /\ \A j \in 1..(i - 1) : s[j] # c
  ELSE 0

\* s.split(c) for a separator of one character: the pieces between the
\* places of c, in order.
split(s, c) ==
  LET at == {0} \cup { i \in 1..Len(s) : s[i] = c } \cup {Len(s) + 1}
      nth(k) == CHOOSE i \in at : Cardinality({ j \in at : j < i }) = k
  IN  [k \in 1..(Cardinality(at) - 1) |-> SubSeq(s, nth(k - 1) + 1, nth(k) - 1)]

\* text.split('\n').map(line => line.trim()).filter(line => line.length > 0)
trimmedLines(text) ==
  LET trimAll(ls) == [i \in 1..Len(ls) |-> trim(ls[i])]
  IN  SelectSeq(trimAll(split(text, "\n")), LAMBDA line : Len(line) > 0)

\* s.substring(from, to), positions counted from 0: both are clamped to the
\* string and swapped when from > to.
substring(s, from, to) ==
  LET clamp(x) == IF x < 0 THEN 0 ELSE IF x > Len(s) THEN Len(s) ELSE x
      a == clamp(from)
      b == clamp(to)
  IN  IF a <= b THEN SubSeq(s, a + 1, b) ELSE SubSeq(s, b + 1, a)

\* The quote stripping done in four places of parseOMMKVN.
stripQuotes(value) ==
  IF \/ startsWith(value, <<"\"">>) /\ endsWith(value, <<"\"">>)
     \/ startsWith(value, <<"'">>) /\ endsWith(value, <<"'">>)
  THEN substring(value, 1, Len(value) - 1)
  ELSE value

\* The number of characters of [A-Z0-9_] at the head of s.
RECURSIVE keyRun(_)
keyRun(s) ==
  IF s # <<>> /\ Head(s) \in UpperCase \cup Digits \cup {"_"}
  THEN 1 + keyRun(Tail(s)) ELSE 0

\* line.match(/^([A-Z_][A-Z0-9_]*)\s*=\s*(.*?)\s*$/) on a trimmed line: the
\* key is the whole run of key characters, "=" must follow it after
\* optional white space, the value is the rest without the white space
\* around it.
matchKVN(line) ==
  LET matchAfterKey(n) ==
        IF \/ n = 0
           \/ Head(line) \in Digits
           \/ ~startsWith(trimStart(SubSeq(line, n + 1, Len(line))), <<"=">>)
        THEN [matched |-> FALSE, key |-> <<>>, value |-> <<>>]
        ELSE [matched |-> TRUE, key |-> SubSeq(line, 1, n),
              value |-> trim(Tail(trimStart(SubSeq(line, n + 1, Len(line)))))]
  IN  matchAfterKey(keyRun(line))

numericFields ==
  { <<"N", "O", "R", "A", "D", "_", "C", "A", "T", "_", "I", "D">>, <<"M", "E", "A", "N", "_", "M", "O", "T", "I", "O", "N">>, <<"E", "C", "C", "E", "N", "T", "R", "I", "C", "I", "T", "Y">>, <<"I", "N", "C", "L", "I", "N", "A", "T", "I", "O", "N">>,
    <<"R", "A", "_", "O", "F", "_", "A", "S", "C", "_", "N", "O", "D", "E">>, <<"A", "R", "G", "_", "O", "F", "_", "P", "E", "R", "I", "C", "E", "N", "T", "E", "R">>, <<"M", "E", "A", "N", "_", "A", "N", "O", "M", "A", "L", "Y">>, <<"E", "L", "E", "M", "E", "N", "T", "_", "S", "E", "T", "_", "N", "O">>,
    <<"R", "E", "V", "_", "A", "T", "_", "E", "P", "O", "C", "H">>, <<"B", "S", "T", "A", "R">>, <<"M", "E", "A", "N", "_", "M", "O", "T", "I", "O", "N", "_", "D", "O", "T">>, <<"M", "E", "A", "N", "_", "M", "O", "T", "I", "O", "N", "_", "D", "D", "O", "T">>,
    <<"E", "P", "H", "E", "M", "E", "R", "I", "S", "_", "T", "Y", "P", "E">> }

coercedNumericFieldsLast(key, value, numValue, lexicallyNumeric) ==
  IF value = <<"t", "r", "u", "e">> THEN JSBoolean(TRUE)
  ELSE IF value = <<"f", "a", "l", "s", "e">> THEN JSBoolean(FALSE)
  ELSE IF value = <<"n", "u", "l", "l">> THEN JSNull
  ELSE IF key = <<"E", "P", "O", "C", "H">> THEN JSString(stripQuotes(value))
  ELSE IF lexicallyNumeric /\ ~isNaN(numValue) THEN numValue
  ELSE JSString(stripQuotes(value))

\* The value parseOMMKVN stores for a matched line, numValue being
\* parseFloat(value) and lexicallyNumeric being !isNaN(value): the if-chain
\* of the loop body.  The warnings for an EPOCH that is no date and for an
\* eccentricity out of range only write to the console.  In the last
\* numeric branch toFixed / parseInt give back the number parseFloat read
\* (the integers tried are below 10^21).
coerced(key, value, numValue, lexicallyNumeric) ==
  IF value = <<"t", "r", "u", "e">> THEN JSBoolean(TRUE)
  ELSE IF value = <<"f", "a", "l", "s", "e">> THEN JSBoolean(FALSE)
  ELSE IF value = <<"n", "u", "l", "l">> THEN JSNull
  ELSE IF key = <<"E", "P", "O", "C", "H">> THEN JSString(stripQuotes(value))
  ELSE IF key \in numericFields
  THEN IF ~isNaN(numValue) THEN numValue ELSE JSString(stripQuotes(value))
  ELSE IF lexicallyNumeric /\ ~isNaN(numValue) THEN numValue
  ELSE JSString(stripQuotes(value))

coerce(key, value) ==
  coerced(key, value, parseFloat(JSString(value)), ~isNaN(JSString(value)))

\* parseOMMKVN(kvnString).  matches(ls) is the lines that match, in order;
\* stored(ms) is the object the loop builds from them: each key matched
\* holds the value of the last line that has it.
parseOMMKVN(kvnString) ==
  LET matches(ls) == SelectSeq([i \in 1..Len(ls) |-> matchKVN(ls[i])], LAMBDA m : m.matched)
      stored(ms) ==
        [ key \in { ms[i].key : i \in 1..Len(ms) } |->
            coerce(key, ms[CHOOSE i \in 1..Len(ms) :
                             ms[i].key = key /\ \A j \in (i + 1)..Len(ms) : ms[j].key # key].value) ]
  IN  JSObject(stored(matches(trimmedLines(kvnString))))

\* -------------------------------------------------------------- JSON.parse
\* What reading one JSON value gives: the value and the text after it, or
\* a failure.
JsonRead(val, rest) == [ok |-> TRUE, val |-> val, rest |-> rest]
JsonFail == [ok |-> FALSE, val |-> JSUndefined, rest |-> <<>>]

\* A string token at the head of s.  No text tried writes an escape.
jsonString(s) ==
  IF s = <<>> \/ Head(s) # "\"" THEN JsonFail
  ELSE LET i == indexOf(Tail(s), "\"")
       IN  IF i = 0 THEN JsonFail
           ELSE JsonRead(JSString(SubSeq(s, 2, i)), SubSeq(s, i + 2, Len(s)))

\* A number token at the head of s: after sl characters of sign, ni digits
\* and nf fraction digits (-1: no point) at the head of v; no leading zero,
\* and a point is followed by at least one digit.  No text tried writes an
\* exponent.
jsonNumber(s) ==
  LET jsonNumberOf(v, sl, ni, nf) ==
        IF ni = 0 \/ (ni > 1 /\ Head(v) = "0") \/ nf = 0 THEN JsonFail
        ELSE JsonRead(JSNumber(literalOf(v, sl = 1, sl, ni, nf).val),
                      SubSeq(s, sl + ni + (IF nf < 0 THEN 0 ELSE 1 + nf) + 1, Len(s)))
      jsonUnsigned(v, sl) ==
        jsonNumberOf(v, sl, leadingDigits(v), fractionDigits(v, leadingDigits(v)))
  IN  IF s # <<>> /\ Head(s) = "-" THEN jsonUnsigned(Tail(s), 1) ELSE jsonUnsigned(s, 0)

\* A value that is no object or array, at the head of s.  No text tried
\* nests an object or an array in an object.
jsonScalar(s) ==
  IF s = <<>> THEN JsonFail
  ELSE IF Head(s) = "\"" THEN jsonString(s)
  ELSE IF startsWith(s, <<"t", "r", "u", "e">>) THEN JsonRead(JSBoolean(TRUE), SubSeq(s, 5, Len(s)))
  ELSE IF startsWith(s, <<"f", "a", "l", "s", "e">>) THEN JsonRead(JSBoolean(FALSE), SubSeq(s, 6, Len(s)))
  ELSE IF startsWith(s, <<"n", "u", "l", "l">>) THEN JsonRead(JSNull, SubSeq(s, 5, Len(s)))
  ELSE jsonNumber(s)

\* The members of an object, s standing before a member's name and o
\* holding the members read so far (a repeated name keeps its last value).
\* After the name k come ":" and the value v; after the value, a comma and
\* more members, or the closing brace.
RECURSIVE jsonMembers(_, _)
jsonMembers(s, o) ==
  LET jsonAfterValue(k, v, rest) ==
        IF ~v.ok \/ rest = <<>> THEN JsonFail
        ELSE IF Head(rest) = "," THEN jsonMembers(trimStart(Tail(rest)), (k.val.s :> v.val) @@ o)
        ELSE IF Head(rest) = "}" THEN JsonRead(JSObject((k.val.s :> v.val) @@ o), Tail(rest))
        ELSE JsonFail
      jsonValueOf(k, v) == jsonAfterValue(k, v, trimStart(v.rest))
      jsonAfterName(k, rest) ==
        IF ~k.ok \/ rest = <<>> \/ Head(rest) # ":" THEN JsonFail
        ELSE jsonValueOf(k, jsonScalar(trimStart(Tail(rest))))
      jsonNameOf(k) == jsonAfterName(k, trimStart(k.rest))
  IN  jsonNameOf(jsonString(s))

\* JSON.parse(text): the value, or a SyntaxError thrown.  jsonValue(s) is
\* the value that starts at the head of s (white space skipped already);
\* the whole text must be one value (jsonWhole).
JSONparse(text) ==
  LET jsonValue(s) ==
        IF s # <<>> /\ Head(s) = "{"
        THEN IF startsWith(trimStart(Tail(s)), <<"}">>)
             THEN JsonRead(JSObject(<<>>), Tail(trimStart(Tail(s))))
             ELSE jsonMembers(trimStart(Tail(s)), <<>>)
        ELSE jsonScalar(s)
      jsonWhole(r) ==
        IF r.ok /\ trimStart(r.rest) = <<>> THEN Returned(r.val) ELSE Thrown("SyntaxError")
  IN  jsonWhole(jsonValue(trimStart(text)))

\* ------------------------------------------------------------- validateOMM
requiredFields ==
  { <<"O", "B", "J", "E", "C", "T", "_", "N", "A", "M", "E">>, <<"N", "O", "R", "A", "D", "_", "C", "A", "T", "_", "I", "D">>, <<"E", "P", "O", "C", "H">>, <<"M", "E", "A", "N", "_", "M", "O", "T", "I", "O", "N">>, <<"E", "C", "C", "E", "N", "T", "R", "I", "C", "I", "T", "Y">>,
    <<"I", "N", "C", "L", "I", "N", "A", "T", "I", "O", "N">>, <<"R", "A", "_", "O", "F", "_", "A", "S", "C", "_", "N", "O", "D", "E">>, <<"A", "R", "G", "_", "O", "F", "_", "P", "E", "R", "I", "C", "E", "N", "T", "E", "R">>, <<"M", "E", "A", "N", "_", "A", "N", "O", "M", "A", "L", "Y">> }

\* The six fields tested with isNaN(parseFloat(...)).
elementFields ==
  { <<"M", "E", "A", "N", "_", "M", "O", "T", "I", "O", "N">>, <<"E", "C", "C", "E", "N", "T", "R", "I", "C", "I", "T", "Y">>, <<"I", "N", "C", "L", "I", "N", "A", "T", "I", "O", "N">>, <<"R", "A", "_", "O", "F", "_", "A", "S", "C", "_", "N", "O", "D", "E">>,
    <<"A", "R", "G", "_", "O", "F", "_", "P", "E", "R", "I", "C", "E", "N", "T", "E", "R">>, <<"M", "E", "A", "N", "_", "A", "N", "O", "M", "A", "L", "Y">> }

\* v[field] for a value that is neither null nor undefined: an object
\* gives its property, and a string, number or boolean has no property of
\* these names.
get(v, field) ==
  IF v.t = "object" /\ field \in DOMAIN v.o THEN v.o[field] ELSE JSUndefined

\* The object a string of OMM data is read into: by parseOMMKVN when it
\* holds "=", else by JSON.parse, which may throw.
parseData(text) ==
  IF includes(text, <<"=">>) THEN Returned(parseOMMKVN(text)) ELSE JSONparse(text)

\* The checks of validateOMM on ommObject.
verdict(ommObject) ==
  IF ommObject.t \in {"null", "undefined"} THEN Thrown("TypeError")
  ELSE IF \E field \in requiredFields : get(ommObject, field) = JSUndefined
  THEN Returned(FALSE)
  ELSE IF typeof(get(ommObject, <<"N", "O", "R", "A", "D", "_", "C", "A", "T", "_", "I", "D">>)) \notin {"number", "string"}
  THEN Returned(FALSE)
  ELSE IF typeof(get(ommObject, <<"E", "P", "O", "C", "H">>)) # "string" THEN Returned(FALSE)
  ELSE IF \E field \in elementFields : isNaN(parseFloat(get(ommObject, field)))
  THEN Returned(FALSE)
  ELSE Returned(TRUE)

\* The body of the try block of validateOMM: the verdict it returns, or
\* the error thrown inside it (by JSON.parse, or by reading a property of
\* null or undefined).
validateOMMBody(ommData) ==
  LET verdictOfParsed(parsed) == IF parsed.ok THEN verdict(parsed.res) ELSE parsed
  IN  IF typeof(ommData) = "string" THEN verdictOfParsed(parseData(ommData.s))
      ELSE verdict(ommData)

\* catch (error) { return false; }
caught(r) == IF r.ok THEN r ELSE Returned(FALSE)

validateOMMUncaught(ommData) == validateOMMBody(ommData)

\* validateOMM(ommData): the catch block turns every error into false.
validateOMM(ommData) == caught(validateOMMBody(ommData))

\* ------------------------------------------- the submit handler, on text
\* What the submit handler did with the text: the format branch taken
\* (isTLE, isOMM, and kvn when the OMM text was read by parseOMMKVN), the
\* validator it called, the error it showed ("" for none), data1 and data2
\* as it left them, and what was given to twoline2satrec or json2satrec.
Submitted(isTLE, isOMM, kvn, validator, error, data1, data2, satrecCall) ==
  [isTLE |-> isTLE, isOMM |-> isOMM, kvn |-> kvn, validator |-> validator,
   error |-> error, data1 |-> data1, data2 |-> data2, satrecCall |-> satrecCall]

\* No call of twoline2satrec or json2satrec was made.
NoSatrecCall == [fn |-> "none"]

\* The OMM branch of calculateSatellitePosition once the data is parsed.
ommSatrecCall(parsed, hasJson2satrec) ==
  IF ~parsed.ok THEN Thrown("SyntaxError")
  ELSE IF ~validateOMM(parsed.res).res THEN Thrown("Invalid OMM format")
  ELSE IF hasJson2satrec THEN Returned([fn |-> "json2satrec", omm |-> parsed.res])
  ELSE Thrown("OMM format is not supported in this version of satellite.js")

\* calculateSatellitePosition(data1, data2, ...) up to the construction of
\* the satellite record: the call made to the propagation library, or the
\* message of the error thrown before it.  data2 is a string or null.
satrecCallOf(data1, data2, hasJson2satrec) ==
  IF /\ typeof(data1) = "string" /\ startsWith(trim(data1.s), <<"1", " ">>)
     /\ typeof(data2) = "string" /\ startsWith(trim(data2.s), <<"2", " ">>)
  THEN Returned([fn |-> "twoline2satrec", line1 |-> data1.s, line2 |-> data2.s])
  ELSE ommSatrecCall(IF typeof(data1) = "string" THEN parseData(data1.s) ELSE Returned(data1),
                     hasJson2satrec)

\* The handler returned after showing error, before it assigned data1 and
\* data2 and before calculateSatellitePosition.
stopped(isTLE, isOMM, kvn, validator, error) ==
  Submitted(isTLE, isOMM, kvn, validator, error, JSUndefined, JSUndefined, NoSatrecCall)

\* The try block of the handler, c being what calculateSatellitePosition
\* did: its error is caught and shown.
calculated(isTLE, isOMM, kvn, validator, data1, data2, c) ==
  IF c.ok THEN Submitted(isTLE, isOMM, kvn, validator, "", data1, data2, c.res)
  ELSE Submitted(isTLE, isOMM, kvn, validator, "Error calculating satellite position",
                 data1, data2, NoSatrecCall)

\* A TLE branch that hands the pair to calculateSatellitePosition without
\* validating it.
submitTLEUnvalidated(data1, data2, hasJson2satrec) ==
  calculated(TRUE, FALSE, FALSE, "validateTLE", JSString(data1), JSString(data2),
             satrecCallOf(JSString(data1), JSString(data2), hasJson2satrec))

\* The TLE branch: lines[0] starts with "1 " here, so of the pair
\* selection only its first branch is ever taken.
submitTLE(data1, data2, hasJson2satrec) ==
  IF ~validateTLE(data1, data2)
  THEN Submitted(TRUE, FALSE, FALSE, "validateTLE",
                 "Invalid TLE format. Please check the TLE data.",
                 JSString(data1), JSString(data2), NoSatrecCall)
  ELSE calculated(TRUE, FALSE, FALSE, "validateTLE", JSString(data1), JSString(data2),
                  satrecCallOf(JSString(data1), JSString(data2), hasJson2satrec))

\* The OMM branch, kvn telling whether the text holds "=" and parsed being
\* what parseOMMKVN or JSON.parse made of it.
submitOMM(inputText, kvn, parsed, hasJson2satrec) ==
  IF ~hasJson2satrec
  THEN stopped(FALSE, TRUE, FALSE, "none",
               "OMM format is not supported in this version of satellite.js")
  ELSE IF ~parsed.ok
  THEN stopped(FALSE, TRUE, kvn, "none", "Invalid OMM format: SyntaxError")
  ELSE IF ~validateOMM(parsed.res).res
  THEN stopped(FALSE, TRUE, kvn, "validateOMM",
               "Invalid OMM format. Please check the OMM data.")
  ELSE calculated(FALSE, TRUE, kvn, "validateOMM", JSString(inputText), JSNull,
                  satrecCallOf(JSString(inputText), JSNull, hasJson2satrec))

detectBraceOnly(inputText, lines, hasJson2satrec) ==
  IF inputText = <<>>
  THEN stopped(FALSE, FALSE, FALSE, "none", "Please enter TLE or OMM data")
  ELSE IF /\ Len(lines) >= 2
          /\ startsWith(lines[1], <<"1", " ">>)
          /\ \E i \in 1..Len(lines) : startsWith(lines[i], <<"2", " ">>)
  THEN submitTLE(lines[1], lines[2], hasJson2satrec)
  ELSE IF includes(inputText, <<"{">>)
  THEN submitOMM(inputText, includes(inputText, <<"=">>), parseData(inputText), hasJson2satrec)
  ELSE stopped(FALSE, FALSE, FALSE, "none",
               "Invalid format. Please enter either TLE or OMM")

\* Format detection on the trimmed text and its non-blank lines.
detect(inputText, lines, hasJson2satrec) ==
  IF inputText = <<>>
  THEN stopped(FALSE, FALSE, FALSE, "none", "Please enter TLE or OMM data")
  ELSE IF /\ Len(lines) >= 2
          /\ startsWith(lines[1], <<"1", " ">>)
          /\ \E i \in 1..Len(lines) : startsWith(lines[i], <<"2", " ">>)
  THEN submitTLE(lines[1], lines[2], hasJson2satrec)
  ELSE IF includes(inputText, <<"{">>) \/ includes(inputText, <<"O", "B", "J", "E", "C", "T", "_", "N", "A", "M", "E">>)
  THEN submitOMM(inputText, includes(inputText, <<"=">>), parseData(inputText), hasJson2satrec)
  ELSE stopped(FALSE, FALSE, FALSE, "none",
               "Invalid format. Please enter either TLE or OMM")

\* The submit handler from reading the textarea to the construction of the
\* satellite record: the empty check, format detection, validation, and
\* the call of calculateSatellitePosition.
submitText(rawText, hasJson2satrec) ==
  detect(trim(rawText), trimmedLines(trim(rawText)), hasJson2satrec)

\* objectName of the submit handler's OMM branch, parsed being what
\* parseOMMKVN or JSON.parse made of the text: ommObject.OBJECT_NAME, and
\* 'Satellite' when that is falsy or when reading it throws.
objectName(parsed) ==
  LET default == JSString(<<"S", "a", "t", "e", "l", "l", "i", "t", "e">>)
      truthy(v) ==
        CASE v.t = "boolean" -> v.b
          [] v.t = "number" -> v.n.cls = "infinite" \/ (v.n.cls = "finite" /\ v.n.m # 0)
          [] v.t = "string" -> v.s # <<>>
          [] v.t = "object" -> TRUE
          [] OTHER -> FALSE
  IN  IF ~parsed.ok \/ typeof(parsed.res) # "object" \/ parsed.res = JSNull THEN default
      ELSE IF <<"O", "B", "J", "E", "C", "T", "_", "N", "A", "M", "E">> \notin DOMAIN parsed.res.o THEN default
      ELSE IF truthy(parsed.res.o[<<"O", "B", "J", "E", "C", "T", "_", "N", "A", "M", "E">>]) THEN parsed.res.o[<<"O", "B", "J", "E", "C", "T", "_", "N", "A", "M", "E">>]
      ELSE default

\* displayResults(position, data1, data2): the format it detects again from
\* its arguments, and the call its updatePosition makes on every tick,
\* calculateSatellitePosition(data1, data2, currentObserverLocation), up to
\* the construction of the satellite record.
displayResults(data1, data2, hasJson2satrec) ==
  [isTLE |-> /\ typeof(data1) = "string" /\ startsWith(data1.s, <<"1", " ">>)
             /\ typeof(data2) = "string" /\ startsWith(data2.s, <<"2", " ">>),
   data2 |-> data2,
   tick |-> satrecCallOf(data1, data2, hasJson2satrec)]

\* --------------------------------------------------- the texts submitted
\* The most lines of a TLE-like text tried.
MaxLines == 3

\* ls joined by the separator sep.
RECURSIVE join(_, _)
join(ls, sep) ==
  IF ls = <<>> THEN <<>>
  ELSE IF Len(ls) = 1 THEN ls[1]
  ELSE ls[1] \o sep \o join(Tail(ls), sep)

\* Every text of one to MaxLines of the lines a user pastes around a TLE:
\* a satellite name, line 1, line 2 of the same and of another satellite,
\* a line that is neither, a blank line.
TleTexts ==
  LET NameLine == <<"I", "S", "S", " ", "(", "Z", "A", "R", "Y", "A", ")">>
      Line1 == padEnd(<<"1", " ", "2", "5", "5", "4", "4", "U">>, TLE_MIN_LENGTH + 1, ".")
      Line2 == padEnd(<<"2", " ", "2", "5", "5", "4", "4", " ">>, TLE_MIN_LENGTH + 1, ".")
      Line2Other == padEnd(<<"2", " ", "2", "5", "5", "4", "5", " ">>, TLE_MIN_LENGTH + 1, ".")
      NoteLine == <<"#", " ", "n", "o", "t", "e">>
      PastedLines == {NameLine, Line1, Line2, Line2Other, NoteLine, <<" ", " ">>}
  IN  UNION { { join(ls, <<"\n">>) : ls \in [1..n -> PastedLines] } : n \in 1..MaxLines }

\* The six elements of a low orbit, as pairs of field name and value text;
\* ecc is the text of the eccentricity (<<>> leaves the field out).
Elements6(ecc) ==
  << <<<<"M", "E", "A", "N", "_", "M", "O", "T", "I", "O", "N">>, <<"1", "5", ".", "5">>>> >>
  \o (IF ecc = <<>> THEN <<>> ELSE << <<<<"E", "C", "C", "E", "N", "T", "R", "I", "C", "I", "T", "Y">>, ecc>> >>)
  \o << <<<<"I", "N", "C", "L", "I", "N", "A", "T", "I", "O", "N">>, <<"5", "1", ".", "6">>>>, <<<<"R", "A", "_", "O", "F", "_", "A", "S", "C", "_", "N", "O", "D", "E">>, <<"1", "0", "6", ".", "9">>>>,
        <<<<"A", "R", "G", "_", "O", "F", "_", "P", "E", "R", "I", "C", "E", "N", "T", "E", "R">>, <<"2", "6", "8", ".", "2">>>>, <<<<"M", "E", "A", "N", "_", "A", "N", "O", "M", "A", "L", "Y">>, <<"9", "1", ".", "8">>>> >>

\* An OMM as JSON text with the given value texts, one member
\* "name": value on each line.
jsonText(name, catId, epoch, ecc) ==
  LET fields == << <<<<"O", "B", "J", "E", "C", "T", "_", "N", "A", "M", "E">>, name>>, <<<<"N", "O", "R", "A", "D", "_", "C", "A", "T", "_", "I", "D">>, catId>>,
                   <<<<"E", "P", "O", "C", "H">>, epoch>> >> \o Elements6(ecc)
      member(f) == <<"\"">> \o f[1] \o <<"\"", ":", " ">> \o f[2]
  IN  <<"{", "\n">> \o join([i \in 1..Len(fields) |-> member(fields[i])], <<",", "\n">>) \o <<"\n", "}">>

JsonNames == { <<"\"", "I", "S", "S", " ", "(", "Z", "A", "R", "Y", "A", ")", "\"">>, <<"\"", "A", "=", "B", "\"">>, <<"\"", "1", " ", "2", "\"">> }

JsonTexts ==
  { jsonText(n, c, e, x) :
      n \in JsonNames,
      c \in { <<"2", "5", "5", "4", "4">>, <<"\"", "2", "5", "5", "4", "4", "\"">>, <<"t", "r", "u", "e">> },
      e \in { <<"\"", "2", "0", "2", "3", "-", "0", "3", "-", "2", "6", "\"">>, <<"\"", "s", "o", "o", "n", "\"">>, <<"2", "0", "2", "3", "0", "3", "2", "6">> },
      x \in { <<"0", ".", "0", "0", "0", "3">>, <<"1", ".", "5">>, <<"\"", "a", "b", "c", "\"">>, <<>> } }
  \cup { <<"{">>, <<"{", "}">>, <<"{", "\"", "O", "B", "J", "E", "C", "T", "_", "N", "A", "M", "E", "\"", ":", " ">>, <<"\"", "O", "B", "J", "E", "C", "T", "_", "N", "A", "M", "E", "\"">>, <<"[", "1", ",", " ", "2", "]">> }

\* An OMM as KVN text, one line KEY = value for each field, followed by
\* the lines extra.
kvnText(name, epoch, ecc, extra) ==
  LET fields == << <<<<"O", "B", "J", "E", "C", "T", "_", "N", "A", "M", "E">>, name>>, <<<<"N", "O", "R", "A", "D", "_", "C", "A", "T", "_", "I", "D">>, <<"2", "5", "5", "4", "4">>>>,
                   <<<<"E", "P", "O", "C", "H">>, epoch>> >> \o Elements6(ecc)
      kvn(f) == f[1] \o <<" ", "=", " ">> \o f[2]
  IN  join([i \in 1..Len(fields) |-> kvn(fields[i])] \o extra, <<"\n">>)

KvnNames == { <<"I", "S", "S", " ", "(", "Z", "A", "R", "Y", "A", ")">>, <<"\"", "I", "S", "S", "\"">>, <<"1", "9", "9", "8">>, <<"t", "r", "u", "e">> }
KvnExtras ==
  { <<>>, <<<<"C", "O", "M", "M", "E", "N", "T", " ", "=", " ", "x">>>>, <<<<"n", "o", " ", "k", "e", "y", " ", "h", "e", "r", "e">>>>, <<<<"E", "C", "C", "E", "N", "T", "R", "I", "C", "I", "T", "Y", " ", "=", " ", "a", "b", "c">>>> }

KvnTexts ==
  { kvnText(n, e, x, extra) :
      n \in KvnNames,
      e \in { <<"2", "0", "2", "3", "-", "0", "3", "-", "2", "6">>, <<"'", "s", "o", "o", "n", "'">>, <<"n", "u", "l", "l">> },
      x \in { <<"0", ".", "0", "0", "0", "3", "1", "5">>, <<"1", ".", "5">>, <<"a", "b", "c">>, <<>> },
      extra \in KvnExtras }

\* The texts submitted: TLE pastes, OMM texts, KVN texts pasted under a line
\* of other text, and texts that are neither.
SubmitTexts ==
  TleTexts \cup JsonTexts \cup KvnTexts
  \cup { <<"1", " ", "o", "f", " ", "2", "\n">> \o kvnText(n, <<"2", "0", "2", "3", "-", "0", "3", "-", "2", "6">>, <<"0", ".", "0", "0", "0", "3", "1", "5">>, <<>>) :
            n \in { <<"I", "S", "S", " ", "(", "Z", "A", "R", "Y", "A", ")">>, <<"2", " ", "X">> } }
  \cup { <<>>, <<" ", " ", "\n", " ">>, <<"h", "e", "l", "l", "o">>, <<"M", "E", "A", "N", "_", "M", "O", "T", "I", "O", "N", " ", "=", " ", "1", "5", ".", "5">>, <<"O", "B", "J", "E", "C", "T", "_", "N", "A", "M", " ", "=", " ", "X">>,
         <<" ", "O", "B", "J", "E", "C", "T", "_", "N", "A", "M", "E", " ">> }

\* ------------------------------------------- the values validateOMM is given
\* The most fields of the known-good record changed at a time.
MaxVaried == 1

\* The known-good record of the decoder test (HELIOS 2A), required fields.
goodOMM ==
  (<<"O", "B", "J", "E", "C", "T", "_", "N", "A", "M", "E">> :> JSString(<<"H", "E", "L", "I", "O", "S", " ", "2", "A">>))
  @@ (<<"N", "O", "R", "A", "D", "_", "C", "A", "T", "_", "I", "D">> :> JSNumber(finite(28492, 0)))
  @@ (<<"E", "P", "O", "C", "H">> :> JSString(<<"2", "0", "2", "5", "-", "0", "3", "-", "2", "6">>))
  @@ (<<"M", "E", "A", "N", "_", "M", "O", "T", "I", "O", "N">> :> JSNumber(finite(150055, 4)))
  @@ (<<"E", "C", "C", "E", "N", "T", "R", "I", "C", "I", "T", "Y">> :> JSNumber(finite(583, 6)))
  @@ (<<"I", "N", "C", "L", "I", "N", "A", "T", "I", "O", "N">> :> JSNumber(finite(983164, 4)))
  @@ (<<"R", "A", "_", "O", "F", "_", "A", "S", "C", "_", "N", "O", "D", "E">> :> JSNumber(finite(1038411, 4)))
  @@ (<<"A", "R", "G", "_", "O", "F", "_", "P", "E", "R", "I", "C", "E", "N", "T", "E", "R">> :> JSNumber(finite(205667, 4)))
  @@ (<<"M", "E", "A", "N", "_", "A", "N", "O", "M", "A", "L", "Y">> :> JSNumber(finite(3395789, 4)))

\* The known-good record with at most MaxVaried fields changed: to another
\* value (FieldChoices), or left out (Absent).
OmmObjects ==
  LET Absent == [t |-> "absent"]
      FieldChoices ==
        { JSNumber(finite(5, 1)), JSNumber(finite(15, 1)), JSNumber(PosInfinity),
          JSNumber(NotANumber), JSString(<<"0", ".", "5">>), JSString(<<"1", "2", "a", "b", "c">>), JSString(<<"a", "b", "c">>),
          JSString(<<"I", "n", "f", "i", "n", "i", "t", "y">>), JSString(<<>>), JSBoolean(TRUE), JSNull, Absent }
      varied(o, change) ==
        [ field \in { f \in DOMAIN o : f \notin DOMAIN change \/ change[f] # Absent } |->
            IF field \in DOMAIN change THEN change[field] ELSE o[field] ]
  IN  { JSObject(varied(goodOMM, change)) :
          change \in UNION { [fs -> FieldChoices] :
                               fs \in { x \in SUBSET requiredFields : Cardinality(x) <= MaxVaried } } }

\* Objects, and what is no object: null, undefined, a number, a boolean,
\* and strings (OMM as JSON and as KVN, and text that is neither).
OmmValues ==
  OmmObjects
  \cup { JSNull, JSUndefined, JSNumber(finite(5, 0)), JSBoolean(TRUE), JSObject(<<>>),
         JSString(jsonText(<<"\"", "I", "S", "S", "\"">>, <<"2", "5", "5", "4", "4">>, <<"\"", "2", "0", "2", "3", "-", "0", "3", "-", "2", "6", "\"">>, <<"0", ".", "0", "0", "0", "3">>)),
         JSString(kvnText(<<"I", "S", "S">>, <<"2", "0", "2", "3", "-", "0", "3", "-", "2", "6">>, <<"0", ".", "0", "0", "0", "3">>, <<>>)),
         JSString(kvnText(<<"I", "S", "S">>, <<"2", "0", "2", "3", "-", "0", "3", "-", "2", "6">>, <<>>, <<>>)),
         JSString(<<"{", "\"", "O", "B", "J", "E", "C", "T", "_", "N", "A", "M", "E", "\"", ":", " ">>), JSString(<<"h", "e", "l", "l", "o">>), JSString(<<>>) }

\* ------------------------------------------------------ the calls analysed
pageVars == <<selectedCustomTime, currentObserverLocation, now, json2satrec, views,
              timers, dom, display, label, inputVisible, inflight, lastStep,
              geolocation>>

ValidatorArgs ==
  { [fn |-> "validateTLE", a |-> l1, b |-> l2] : l1 \in TleLines, l2 \in TleLines }
  \cup { [fn |-> "validateOMM", v |-> v] : v \in OmmValues }

\* The page is loaded and one call is about to be made.
ValidatorInit ==
  /\ PageLoaded
  /\ arg \in ValidatorArgs
  /\ ret = NoRet

\* validateTLE(arg.a, arg.b) is called and returns.
CallValidateTLE ==
  /\ arg.fn = "validateTLE"
  /\ ~ret.done
  /\ ret' = [done |-> TRUE, out |-> Returned(validateTLE(arg.a, arg.b))]
  /\ UNCHANGED <<arg, pageVars>>

\* validateOMM(arg.v) is called and returns, or throws.
CallValidateOMM ==
  /\ arg.fn = "validateOMM"
  /\ ~ret.done
  /\ ret' = [done |-> TRUE, out |-> validateOMM(arg.v)]
  /\ UNCHANGED <<arg, pageVars>>

ValidatorNext ==
  \/ CallValidateTLE
  \/ CallValidateOMM

ValidatorSpec == ValidatorInit /\ [][ValidatorNext]_vars


\* ------------------------------------------------ the submit handler, on text
SubmitArgs == { [fn |-> "submit", text |-> t] : t \in SubmitTexts }

\* The page is loaded and the textarea holds a text.
SubmitInit ==
  /\ PageLoaded
  /\ arg \in SubmitArgs
  /\ ret = NoRet

\* submitBtn click, from reading the textarea to the construction of the
\* satellite record.
ClickSubmit ==
  /\ arg.fn = "submit"
  /\ ~ret.done
  /\ ret' = [done |-> TRUE, out |-> submitText(arg.text, json2satrec)]
  /\ UNCHANGED <<arg, pageVars>>

\* The rest of the submit handler after calculateSatellitePosition
\* returned a result: displayResults(result, data1, data2) for TLE, and
\* displayResults(result, data1, objectName) for OMM.
ShowResults ==
  /\ arg.fn = "submit"
  /\ ret.done /\ "shown" \notin DOMAIN ret
  /\ ret.out.error = ""
  /\ ret' = [done |-> TRUE, out |-> ret.out,
             shown |-> IF ret.out.isTLE
                       THEN displayResults(ret.out.data1, ret.out.data2, json2satrec)
                       ELSE displayResults(ret.out.data1,
                                           objectName(parseData(ret.out.data1.s)),
                                           json2satrec)]
  /\ UNCHANGED <<arg, pageVars>>

SubmitTextNext ==
  \/ ClickSubmit
  \/ ShowResults

SubmitTextSpec == SubmitInit /\ [][SubmitTextNext]_vars

\* ------------------------------------------------------- the KVN decoder
\* One line key = value for each key, value and layout (the white space
\* before the key, around "=" and at the end of the line), and whole OMM
\* texts.
KvnArgs ==
  LET KvnKeys ==
        { <<"E", "P", "O", "C", "H">>, <<"E", "C", "C", "E", "N", "T", "R", "I", "C", "I", "T", "Y">>, <<"N", "O", "R", "A", "D", "_", "C", "A", "T", "_", "I", "D">>, <<"B", "S", "T", "A", "R">>, <<"O", "B", "J", "E", "C", "T", "_", "N", "A", "M", "E">>,
          <<"C", "O", "M", "M", "E", "N", "T">> }
      KvnValues ==
        { <<"t", "r", "u", "e">>, <<"f", "a", "l", "s", "e">>, <<"n", "u", "l", "l">>, <<"0", ".", "5">>, <<"-", "1">>, <<"5", ".">>, <<"1", "2", "a", "b", "c">>, <<"a", "b", "c">>,
          <<"\"", "a", "b", "c", "\"">>, <<"'", "a", "b", "c", "'">>, <<"\"", "0", ".", "5", "\"">>, <<"\"", "t", "r", "u", "e", "\"">>, <<"'", "'">>, <<"\"">>, <<"I", "n", "f", "i", "n", "i", "t", "y">>,
          <<"2", "0", "2", "3", "-", "0", "3", "-", "2", "6">>, <<"\"", "2", "0", "2", "3", "-", "0", "3", "-", "2", "6", "\"">>, <<"1", " ", "2">>, <<"x", "=", "y">>, <<>> }
      Layouts ==
        { [pre |-> <<>>, mid |-> <<" ", "=", " ">>, post |-> <<>>],
          [pre |-> <<>>, mid |-> <<"=">>, post |-> <<>>],
          [pre |-> <<" ", " ">>, mid |-> <<" ", "\t", "=", " ", " ">>, post |-> <<" ">>] }
  IN  { [fn |-> "parseOMMKVN", line |-> TRUE, key |-> k, value |-> v,
         text |-> l.pre \o k \o l.mid \o v \o l.post] :
          k \in KvnKeys, v \in KvnValues, l \in Layouts }
      \cup { [fn |-> "parseOMMKVN", line |-> FALSE, key |-> <<>>, value |-> <<>>, text |-> t] :
               t \in KvnTexts }

KvnInit ==
  /\ PageLoaded
  /\ arg \in KvnArgs
  /\ ret = NoRet

\* parsed = parseOMMKVN(kvnData), the first step of the decoder test.
CallParseOMMKVN ==
  /\ arg.fn = "parseOMMKVN"
  /\ ~ret.done
  /\ ret' = [done |-> TRUE, out |-> Returned(parseOMMKVN(arg.text)),
             validated |-> FALSE, isValid |-> Returned(FALSE)]
  /\ UNCHANGED <<arg, pageVars>>

\* isValid = validateOMM(parsed), its second step.
ValidateParsed ==
  /\ arg.fn = "parseOMMKVN"
  /\ ret.done
  /\ ~ret.validated
  /\ ret' = [ret EXCEPT !.validated = TRUE, !.isValid = validateOMM(ret.out.res)]
  /\ UNCHANGED <<arg, pageVars>>

KvnNext ==
  \/ CallParseOMMKVN
  \/ ValidateParsed

KvnSpec == KvnInit /\ [][KvnNext]_vars

\* ------------------------------------------------------------ claims C11..

\* The catalog number standing right after the two-character marker of
\* line l: the four or five digits at columns 3..7 (five when there are
\* five), or <<>> when fewer than four digits stand there.
catalog(l) ==
  LET widths == { n \in 4..5 : Len(l) >= 2 + n /\ \A i \in 3..(2 + n) : l[i] \in Digits }
  IN  IF widths = {} THEN <<>>
      ELSE SubSeq(l, 3, 2 + CHOOSE n \in widths : \A m \in widths : m <= n)

\* C11 as stated: validateTLE(l1, l2) is true exactly when both lines have
\* at least 68 characters, l1 starts with "1 ", l2 starts with "2 ", and the
\* catalog number after the marker of l1 is that of l2.
C11_ValidateTLEContract ==
  (arg.fn = "validateTLE" /\ ret.done) =>
    (ret.out.res <=>
       /\ Len(arg.a) >= 68
       /\ Len(arg.b) >= 68
       /\ startsWith(arg.a, <<"1", " ">>)
       /\ startsWith(arg.b, <<"2", " ">>)
       /\ catalog(arg.a) # <<>>
       /\ catalog(arg.a) = catalog(arg.b))

\* C11 amended: validateTLE(l1, l2) is true exactly when both lines as given
\* have at least 68 characters and, with the white space around them
\* removed, l1 starts with "1 ", l2 starts with "2 ", and the four or five
\* digits after the marker of l1 are those after the marker of l2.
C11_ValidateTLETrimmedContract ==
  (arg.fn = "validateTLE" /\ ret.done) =>
    (ret.out.res <=>
       /\ Len(arg.a) >= 68
       /\ Len(arg.b) >= 68
       /\ startsWith(trim(arg.a), <<"1", " ">>)
       /\ startsWith(trim(arg.b), <<"2", " ">>)
       /\ catalog(trim(arg.a)) # <<>>
       /\ catalog(trim(arg.a)) = catalog(trim(arg.b)))

\* validateTLE accepted a pair whose first line has white space before its
\* marker.
C11_Witness ==
  /\ arg.fn = "validateTLE"
  /\ ret.done
  /\ ret.out.res
  /\ Head(arg.a) = " "

\* The non-blank lines of the text submitted, trimmed.
pasted == trimmedLines(trim(arg.text))

\* The text submitted is a satellite name line, then a line starting "1 ",
\* then a line starting "2 ".
NameLineFirst ==
  /\ Len(pasted) >= 3
  /\ ~startsWith(pasted[1], <<"1", " ">>) /\ ~startsWith(pasted[1], <<"2", " ">>)
  /\ ~includes(pasted[1], <<"{">>) /\ ~includes(pasted[1], <<"=">>)
  /\ startsWith(pasted[2], <<"1", " ">>)
  /\ startsWith(pasted[3], <<"2", " ">>)

\* C12: a text whose first non-blank line is a satellite name, followed by
\* a line starting "1 " and a line starting "2 ", is classified as TLE and
\* given to validateTLE; it is not reported as an unrecognized format.
C12_NameLineTolerated ==
  (arg.fn = "submit" /\ ret.done /\ NameLineFirst) =>
    (ret.out.isTLE /\ ret.out.validator = "validateTLE")

\* The place in ls of the first line starting with marker after place from,
\* or 0.
firstStarting(ls, marker, from) ==
  IF \E i \in (from + 1)..Len(ls) : startsWith(ls[i], marker)
  THEN CHOOSE i \in (from + 1)..Len(ls) :
         /\ startsWith(ls[i], marker)
         /\ \A j \in (from + 1)..(i - 1) : ~startsWith(ls[j], marker)
  ELSE 0

\* C13: when the text is classified as TLE, the pair given to validateTLE
\* and to the propagation library is the first line starting "1 " and the
\* first line after it starting "2 ".
C13_PairIsFirstLine1FirstLaterLine2 ==
  (arg.fn = "submit" /\ ret.done /\ ret.out.isTLE) =>
    LET i1 == firstStarting(pasted, <<"1", " ">>, 0)
        i2 == firstStarting(pasted, <<"2", " ">>, i1)
    IN  /\ i1 > 0 /\ i2 > 0
        /\ ret.out.data1 = JSString(pasted[i1])
        /\ ret.out.data2 = JSString(pasted[i2])

\* C14: detection always yields exactly one class; a text the TLE rule does
\* not take is OMM exactly when it holds "{" or OBJECT_NAME; an OMM text is
\* read as KVN exactly when it holds "="; any other text is unrecognized,
\* and then the handler shows an error and returns without calling a
\* validator or the propagation library.
C14_DetectionRules ==
  (arg.fn = "submit" /\ ret.done) =>
    /\ ~(ret.out.isTLE /\ ret.out.isOMM)
    /\ ~ret.out.isTLE =>
         (ret.out.isOMM <=> (includes(arg.text, <<"{">>) \/ includes(arg.text, <<"O", "B", "J", "E", "C", "T", "_", "N", "A", "M", "E">>)))
    /\ (ret.out.isOMM /\ json2satrec) => (ret.out.kvn <=> \E i \in 1..Len(arg.text) : arg.text[i] = "=")
    /\ (~ret.out.isTLE /\ ~ret.out.isOMM) =>
         /\ ret.out.error # ""
         /\ ret.out.validator = "none"
         /\ ret.out.satrecCall = NoSatrecCall
         /\ timers = {} /\ inflight = <<>>

\* A text with "=" but neither "{" nor OBJECT_NAME was reported as
\* unrecognized.
C14_Witness ==
  /\ arg.fn = "submit" /\ ret.done
  /\ includes(arg.text, <<"=">>)
  /\ ~ret.out.isTLE /\ ~ret.out.isOMM
  /\ ret.out.error = "Invalid format. Please enter either TLE or OMM"

\* The text submitted is a JSON object with the nine required fields, a
\* string EPOCH, a number or string NORAD_CAT_ID and numbers for the elements.
WellTypedJson ==
  \E n \in JsonNames, c \in { <<"2", "5", "5", "4", "4">>, <<"\"", "2", "5", "5", "4", "4", "\"">> },
     e \in { <<"\"", "2", "0", "2", "3", "-", "0", "3", "-", "2", "6", "\"">>, <<"\"", "s", "o", "o", "n", "\"">> }, x \in { <<"0", ".", "0", "0", "0", "3">>, <<"1", ".", "5">> } :
    arg.text = jsonText(n, c, e, x)

\* C15: a JSON object with the required fields and well-typed values is
\* accepted as OMM and reaches the propagation library (where the library
\* reads OMM), whatever characters its string values hold.
C15_WellTypedJsonAccepted ==
  (arg.fn = "submit" /\ ret.done /\ json2satrec /\ WellTypedJson) =>
    /\ ret.out.isOMM
    /\ ret.out.error = ""
    /\ ret.out.satrecCall.fn = "json2satrec"

\* v parses as a finite number: a finite number, or a string with a finite
\* number at its head.
parsesFinite(v) == v.t \in {"number", "string"} /\ parseFloat(v).n.cls = "finite"

\* C16: for a field mapping m, validateOMM(m) is true exactly when the nine
\* required fields are present, NORAD_CAT_ID is a number or a string, EPOCH
\* is a string, and each of the six elements parses as a finite number; the
\* eccentricity range plays no part.
C16_ValidateOMMContract ==
  (arg.fn = "validateOMM" /\ ret.done /\ arg.v.t = "object") =>
    (ret.out.res <=>
       /\ requiredFields \subseteq DOMAIN arg.v.o
       /\ arg.v.o[<<"N", "O", "R", "A", "D", "_", "C", "A", "T", "_", "I", "D">>].t \in {"number", "string"}
       /\ arg.v.o[<<"E", "P", "O", "C", "H">>].t = "string"
       /\ \A field \in elementFields : parsesFinite(arg.v.o[field]))

\* new Date(s) is a valid date.  How a text that is no ISO date is read is
\* left to the engine; of the texts tried, those hold no digit and are no
\* date on any engine.
validDate(s) ==
  /\ Len(s) = 10
  /\ \A i \in {1, 2, 3, 4, 6, 7, 9, 10} : s[i] \in Digits
  /\ s[5] = "-" /\ s[8] = "-"
  /\ digitsValue(SubSeq(s, 6, 7)) \in 1..12
  /\ digitsValue(SubSeq(s, 9, 10)) \in 1..31

\* 0 <= n < 1 for a number n
inUnitRange(n) == n.cls = "finite" /\ n.m >= 0 /\ n.m < 10 ^ n.e

\* C17: the record given to json2satrec has an EPOCH that is a valid date
\* and an ECCENTRICITY e with 0 <= e < 1.
C17_PropagatedRecordInvariant ==
  (arg.fn = "submit" /\ ret.done /\ ret.out.satrecCall.fn = "json2satrec") =>
    LET omm == ret.out.satrecCall.omm
    IN  /\ validDate(get(omm, <<"E", "P", "O", "C", "H">>).s)
        /\ get(omm, <<"E", "C", "C", "E", "N", "T", "R", "I", "C", "I", "T", "Y">>).t = "number"
        /\ inUnitRange(get(omm, <<"E", "C", "C", "E", "N", "T", "R", "I", "C", "I", "T", "Y">>).n)

\* C18: validateTLE on any two strings, and validateOMM on any string,
\* object, null or other value, return a boolean and never throw.
C18_ValidatorsNeverThrow ==
  (arg.fn \in {"validateTLE", "validateOMM"} /\ ret.done) =>
    (ret.out.ok /\ ret.out.res \in BOOLEAN)

\* validateOMM was given a value whose reading throws inside it (null,
\* undefined, or a string that is no JSON) and returned false.
C18_Witness ==
  /\ arg.fn = "validateOMM"
  /\ ret.done
  /\ ~validateOMMBody(arg.v).ok
  /\ ret.out.ok /\ ret.out.res = FALSE

\* w is a decimal literal as a whole: an optional sign, then Infinity or
\* digits with at most one point and at least one digit.
isLiteral(w) ==
  LET u == IF w # <<>> /\ w[1] \in {"+", "-"} THEN SubSeq(w, 2, Len(w)) ELSE w
  IN  \/ u = <<"I", "n", "f", "i", "n", "i", "t", "y">>
      \/ /\ \A i \in 1..Len(u) : u[i] \in Digits \cup {"."}
         /\ Cardinality({ i \in 1..Len(u) : u[i] = "." }) <= 1
         /\ \E i \in 1..Len(u) : u[i] \in Digits

\* A decimal literal stands at the head of w.
literalAtHead(w) == \E n \in 1..Len(w) : isLiteral(SubSeq(w, 1, n))

\* w without the pair of equal quotes around it, if it has one.
unquoted(w) ==
  IF Len(w) >= 2 /\ w[1] = w[Len(w)] /\ w[1] \in {"\"", "'"}
  THEN SubSeq(w, 2, Len(w) - 1) ELSE w

\* C19: for a line key = value, parseOMMKVN stores under key the value
\* chosen by the first rule that applies: the literal true, false or null
\* gives the boolean or null, for any key; the key EPOCH gives the string
\* without its quotes; a key of the numeric-field set gives a number when a
\* floating-point literal stands at the head of the value, else the string
\* without its quotes; any other key gives a number when the value is a
\* numeric literal as a whole, else the string without its quotes.
C19_CoercionPriority ==
  (arg.fn = "parseOMMKVN" /\ arg.line /\ ret.done) =>
    LET o == ret.out.res.o
        key == arg.key
        value == arg.value
    IN  /\ DOMAIN o = {key}
        /\ IF value = <<"t", "r", "u", "e">> THEN o[key] = JSBoolean(TRUE)
           ELSE IF value = <<"f", "a", "l", "s", "e">> THEN o[key] = JSBoolean(FALSE)
           ELSE IF value = <<"n", "u", "l", "l">> THEN o[key] = JSNull
           ELSE IF key = <<"E", "P", "O", "C", "H">> THEN o[key] = JSString(unquoted(value))
           ELSE IF key \in numericFields
           THEN IF literalAtHead(value) THEN o[key].t = "number" /\ o[key].n.cls # "nan"
                ELSE o[key] = JSString(unquoted(value))
           ELSE IF isLiteral(value) THEN o[key].t = "number" /\ o[key].n.cls # "nan"
                ELSE o[key] = JSString(unquoted(value))

\* A value with a number at its head and other text after it was stored as
\* a number under a numeric-field key.
C19_Witness ==
  /\ arg.fn = "parseOMMKVN" /\ arg.line /\ ret.done
  /\ arg.key = <<"E", "C", "C", "E", "N", "T", "R", "I", "C", "I", "T", "Y">>
  /\ arg.value = <<"1", "2", "a", "b", "c">>
  /\ ret.out.res.o[arg.key] = JSNumber(finite(12, 0))

\* The text decoded has a well-formed line for each required field: a
\* non-empty name, an EPOCH text that is no literal, numeric elements; and
\* any lines after them.
WellFormedKvn ==
  \E n \in KvnNames, e \in { <<"2", "0", "2", "3", "-", "0", "3", "-", "2", "6">>, <<"'", "s", "o", "o", "n", "'">> },
     x \in { <<"0", ".", "0", "0", "0", "3", "1", "5">>, <<"1", ".", "5">> }, extra \in KvnExtras :
    arg.text = kvnText(n, e, x, extra)

\* C20: decoding such a text gives numbers for the numeric fields and
\* strings without quotes for OBJECT_NAME and EPOCH, and validateOMM accepts
\* the decoded record, whatever other lines the text holds.
C20_WellFormedKvnDecodes ==
  (arg.fn = "parseOMMKVN" /\ ~arg.line /\ ret.done /\ ret.validated /\ WellFormedKvn) =>
    LET o == ret.out.res.o
    IN  /\ requiredFields \subseteq DOMAIN o
        /\ \A field \in elementFields \cup { <<"N", "O", "R", "A", "D", "_", "C", "A", "T", "_", "I", "D">> } : o[field].t = "number"
        /\ o[<<"O", "B", "J", "E", "C", "T", "_", "N", "A", "M", "E">>].t = "string" /\ o[<<"O", "B", "J", "E", "C", "T", "_", "N", "A", "M", "E">>].s = unquoted(o[<<"O", "B", "J", "E", "C", "T", "_", "N", "A", "M", "E">>].s)
        /\ o[<<"E", "P", "O", "C", "H">>].t = "string"
        /\ ret.isValid.res

\* ---------------------------------------------------------------------
\* calculateSatellitePosition from the satellite record on
\* ---------------------------------------------------------------------
\* An angle in degrees as the double deg + m * 2^e, deg whole and
\* |m * 2^e| < 1 with the sign of the angle; or NaN.
Angle(deg, m, e) == [cls |-> "finite", deg |-> deg, m |-> m, e |-> e]
NaNAngle == [cls |-> "nan", deg |-> 0, m |-> 0, e |-> 0]

\* The binary exponents of the small angles tried reach MaxShift places
\* below the last place of a double between 256 and 512, which is 2^-44.
MaxShift == 3

\* Math.atan2(y, x) * 180 / Math.PI for the positions tried: whole degrees,
\* and angles a few units of 2^e away from 0.
Angles ==
  { Angle(d, 0, 0) : d \in {-179, -90, -1, 0, 1, 90, 180} }
  \cup { Angle(0, m, e) : m \in {-3, -2, -1, 1, 2, 3}, e \in (-44 - MaxShift)..(-43) }

\* rightAscension: the angle, and the double sum angle + 360 when the
\* angle is below 0.  The sum lies in [256, 512) for the angles tried, so
\* it is the multiple of 2^-44 nearest to the exact sum, the even one of
\* two equally near.
rightAscension(a) ==
  LET pow2(n) == 2 ^ n
      \* q / 2^k rounded to the nearest whole number, ties to even
      rounded(q, k) ==
        LET n == q \div pow2(k)
            r == q % pow2(k)
        IN  IF 2 * r > pow2(k) \/ (2 * r = pow2(k) /\ n % 2 = 1) THEN n + 1 ELSE n
      sum == IF a.m = 0 THEN Angle(a.deg + 360, 0, 0)
             ELSE IF a.e >= -44 THEN Angle(a.deg + 360, a.m, a.e)
             ELSE LET n == rounded(-a.m, -44 - a.e)
                  IN  IF n = 0 THEN Angle(a.deg + 360, 0, 0)
                      ELSE Angle(a.deg + 360, -n, -44)
  IN  IF a.cls = "nan" THEN a
      ELSE IF a.deg < 0 \/ (a.deg = 0 /\ a.m < 0) THEN sum
      ELSE a

\* What kind of number a coordinate is.
NumberClasses == {"finite", "nan", "infinite"}

\* What propagate may return with a position in it: the kind of each
\* component and what atan2 makes of y and x.
Positions ==
  { [kind |-> "position", x |-> "finite", y |-> "finite", z |-> "finite", atan2 |-> a] :
      a \in Angles }
  \cup { [kind |-> "position", x |-> cx, y |-> cy, z |-> cz,
          atan2 |-> IF cx = "nan" \/ cy = "nan" THEN NaNAngle
                    ELSE IF cx = "infinite" /\ cy = "infinite" THEN Angle(45, 0, 0)
                    ELSE IF cy = "infinite" THEN Angle(90, 0, 0)
                    ELSE Angle(0, 0, 0)] :
           cx \in NumberClasses, cy \in NumberClasses, cz \in NumberClasses }

\* calculateSatellitePosition once the call that builds the satellite
\* record is known (call, from satrecCallOf).  c holds what the library
\* does in this computation: satrec is what twoline2satrec or json2satrec
\* gives ("ok", a record with an error code, null, or a thrown error), pv
\* what propagate gives by its kind (null, no position, a position, or a
\* thrown error), look what the frame transforms give (the kinds of
\* azimuth, elevation and rangeSat, or a thrown error).  The catch block logs the
\* error and throws it again.
calculateSatellitePositionOf(call, c) ==
  LET declination(p) == IF p.z = "infinite" THEN "nan" ELSE "finite"
  IN  IF ~call.ok THEN Thrown(call.err)
      ELSE IF c.satrec = "throws" THEN Thrown("Error thrown by the library")
      ELSE IF c.satrec = "null" THEN Thrown("TypeError")
      ELSE IF c.satrec = "error" THEN Thrown("Satellite propagation error")
      ELSE IF c.pv.kind = "throws" THEN Thrown("Error thrown by the library")
      ELSE IF c.pv.kind = "null" THEN Thrown("Propagation failed - null result returned")
      ELSE IF c.pv.kind = "no position" THEN Thrown("Propagation failed - invalid position returned")
      ELSE IF c.pv.x = "nan" \/ c.pv.y = "nan" \/ c.pv.z = "nan"
      THEN Thrown("Propagation failed - invalid position returned")
      ELSE IF c.look.kind = "throws" THEN Thrown("Error thrown by the library")
      ELSE Returned([azimuth |-> c.look.azimuth, elevation |-> c.look.elevation,
                     range |-> c.look.rangeSat,
                     rightAscension |-> rightAscension(c.pv.atan2),
                     declination |-> declination(c.pv)])

\* A caller without a catch block: the error leaves the handler and the
\* loading indicator stays.
settledUncaught(caller, r) ==
  IF r.ok THEN [handled |-> "displayed", loading |-> FALSE]
  ELSE [handled |-> "uncaught", loading |-> caller = "submit"]

\* What the caller makes of the outcome r: the submit handler hides the
\* loading indicator and displays the result, or catches the error and
\* shows it; updatePosition displays the result, or catches the error and
\* logs it.
settled(caller, r) ==
  IF r.ok THEN [handled |-> "displayed", loading |-> FALSE]
  ELSE IF caller = "submit" THEN [handled |-> "error shown", loading |-> FALSE]
  ELSE [handled |-> "error logged", loading |-> FALSE]

\* The computations analysed: the data of a submission, by the submit
\* handler and by a tick, with the library failing at one stage or
\* returning numbers of every kind.
CalcArgs ==
  LET Line1 == padEnd(<<"1", " ", "2", "5", "5", "4", "4", "U">>, TLE_MIN_LENGTH + 1, ".")
      Line2 == padEnd(<<"2", " ", "2", "5", "5", "4", "4", " ">>, TLE_MIN_LENGTH + 1, ".")
      json == jsonText(<<"\"", "I", "S", "S", " ", "(", "Z", "A", "R", "Y", "A", ")", "\"">>, <<"2", "5", "5", "4", "4">>, <<"\"", "2", "0", "2", "3", "-", "0", "3", "-", "2", "6", "\"">>, <<"0", ".", "0", "0", "0", "3">>)
      kvn == kvnText(<<"I", "S", "S", " ", "(", "Z", "A", "R", "Y", "A", ")">>, <<"2", "0", "2", "3", "-", "0", "3", "-", "2", "6">>, <<"0", ".", "0", "0", "0", "3", "1", "5">>, <<>>)
      Data == { [caller |-> "submit", data1 |-> JSString(Line1), data2 |-> JSString(Line2)],
                [caller |-> "tick", data1 |-> JSString(Line1), data2 |-> JSString(Line2)],
                [caller |-> "submit", data1 |-> JSString(json), data2 |-> JSNull],
                [caller |-> "tick", data1 |-> JSString(json), data2 |-> JSString(<<"I", "S", "S", " ", "(", "Z", "A", "R", "Y", "A", ")">>)],
                [caller |-> "submit", data1 |-> JSString(kvn), data2 |-> JSNull],
                [caller |-> "tick", data1 |-> JSString(kvn), data2 |-> JSString(<<"I", "S", "S", " ", "(", "Z", "A", "R", "Y", "A", ")">>)] }
      look(kind) == [kind |-> kind, azimuth |-> "finite", elevation |-> "finite",
                     rangeSat |-> "finite"]
      Looks == { [kind |-> "angles", azimuth |-> a, elevation |-> b, rangeSat |-> r] :
                   a \in NumberClasses, b \in NumberClasses, r \in NumberClasses }
      pv(kind) == [kind |-> kind, x |-> "finite", y |-> "finite", z |-> "finite",
                   atan2 |-> Angle(90, 0, 0)]
      Outcomes ==
        { [satrec |-> s, pv |-> pv("position"), look |-> look("angles")] :
            s \in {"error", "null", "throws"} }
        \cup { [satrec |-> "ok", pv |-> p, look |-> look("angles")] :
                 p \in Positions \cup {pv("null"), pv("no position"), pv("throws")} }
        \cup { [satrec |-> "ok", pv |-> pv("position"), look |-> l] :
                 l \in Looks \cup {look("throws")} }
  IN  { [fn |-> "calculate", caller |-> d.caller, data1 |-> d.data1, data2 |-> d.data2,
         c |-> c] : d \in Data, c \in Outcomes }

\* The page is loaded, a submission passed its validation, and the
\* handler or a tick of its view is about to compute its position.
CalcInit ==
  /\ PageLoaded
  /\ arg \in CalcArgs
  /\ satrecCallOf(arg.data1, arg.data2, json2satrec).ok
  /\ ret = NoRet

\* The caller shows the loading indicator (the submit handler) and calls
\* calculateSatellitePosition, which returns a result or throws.
CallCalculate ==
  /\ arg.fn = "calculate"
  /\ ~ret.done
  /\ ret' = [done |-> TRUE,
             out |-> calculateSatellitePositionOf(
                       satrecCallOf(arg.data1, arg.data2, json2satrec), arg.c),
             handled |-> "pending", loading |-> arg.caller = "submit"]
  /\ UNCHANGED <<arg, pageVars>>

\* The caller goes on after the call: the rest of its try block, or its
\* catch block.
Settle ==
  /\ arg.fn = "calculate"
  /\ ret.done /\ ret.handled = "pending"
  /\ ret' = [done |-> TRUE, out |-> ret.out,
             handled |-> settled(arg.caller, ret.out).handled,
             loading |-> settled(arg.caller, ret.out).loading]
  /\ UNCHANGED <<arg, pageVars>>

CalcNext ==
  \/ CallCalculate
  \/ Settle

CalcSpec == CalcInit /\ [][CalcNext]_vars

\* ---------------------------------------------------------------------
\* Computations compared
\* ---------------------------------------------------------------------
\* The page is loaded and showing the data of a submission that passed
\* validation; no computation is kept yet.
RecomputeInit ==
  /\ PageLoaded
  /\ arg \in { [fn |-> "recompute", data |-> d] :
                d \in { x \in Inputs : x.valid /\ (x.fmt = "TLE" \/ json2satrec) } }
  /\ ret = NoRet

\* One call of calculateSatellitePosition(data1, data2,
\* currentObserverLocation) on that data, by the submit handler or by
\* updatePosition.  Of the calls made with a fixed time selected ret keeps
\* two for comparison, one chosen to be kept (keep) and the latest after
\* it: the location, the time selector and the clock of the call, and what
\* it returned or threw.
Recompute(keep) ==
  /\ arg.fn = "recompute"
  /\ TaskMayStart
  /\ LET call == [obs |-> currentObserverLocation, time |-> selectedCustomTime,
                  now |-> now,
                  out |-> calculateSatellitePosition(arg.data, currentObserverLocation)]
     IN  IF selectedCustomTime = NoTime THEN ~keep /\ UNCHANGED ret
         ELSE IF keep \/ ~ret.done THEN ret' = [done |-> TRUE, log |-> <<call>>]
         ELSE ret' = [done |-> TRUE, log |-> <<ret.log[1], call>>]
  /\ lastStep' = Step("recompute", NoView, "none", 1, FALSE)
  /\ UNCHANGED <<arg, selectedCustomTime, currentObserverLocation, now, json2satrec, views,
                 timers, dom, display, label, inputVisible, inflight, geolocation>>

\* Computations, and between them the clock, the time selector and the
\* location handlers.
RecomputeNext ==
  \/ \E keep \in BOOLEAN : Recompute(keep)
  \/ Advance
  \/ \E c \in CustomTimeInputs : UseCustomTime(c)
  \/ ResetToCurrentTime
  \/ UseDefaultLocation
  \/ \E m \in ManualInputs : UseManualLocation(m)

RecomputeSpec == RecomputeInit /\ [][RecomputeNext]_vars

\* ---------------------------------------------------------------------
\* Teardown, the Running flag
\* ---------------------------------------------------------------------

\* C27: Back to Input clears the interval of the view it tears down, so no
\* tick of that view can follow: right after it the view has no armed
\* timer and is gone, and an interval is only ever armed for the view on
\* display, by displayResults or by a resume.
C27_TeardownClearsTimer ==
  [][ /\ lastStep'.op = "backToInput" =>
           /\ { tm \in timers' : tm.view = lastStep'.view } = {}
           /\ lastStep'.view \notin DOMAIN views'
      /\ \A tm \in timers' \ timers :
           /\ tm.view = dom'
           /\ lastStep'.op \in {"displayResults", "toggle"} ]_vars

\* A results view was torn down and the input section is back.
C27_Witness ==
  /\ lastStep.op = "backToInput"
  /\ lastStep.view \notin DOMAIN views
  /\ dom = NoView /\ inputVisible

\* C29: in every view, isLiveUpdating holds exactly when an interval of the
\* view is armed.
C29_FlagAgreesWithTimer ==
  \A v \in DOMAIN views : views[v].isLiveUpdating <=> TimersOf(v) # {}

\* ---------------------------------------------------------------------
\* Validation before propagation; the format shown
\* ---------------------------------------------------------------------

\* The validator of the detected format rejects the text submitted: the
\* pair lines[0], lines[1] fails validateTLE, or the decoded OMM fails
\* validateOMM.
failedValidation(out, lines, parsed) ==
  \/ out.isTLE /\ ~validateTLE(lines[1], lines[2])
  \/ out.isOMM /\ json2satrec /\ parsed.ok /\ ~validateOMM(parsed.res).res

\* C21: when the validation of a submission fails, the handler shows an
\* error and returns: it makes no call of twoline2satrec or json2satrec
\* (and so none of propagate), it opens no results view, and it leaves no
\* timer or queued task behind that could validate or propagate again.
C21_NoPropagationAfterFailedValidation ==
  (/\ arg.fn = "submit" /\ ret.done
   /\ failedValidation(ret.out, trimmedLines(trim(arg.text)), parseData(trim(arg.text)))) =>
    /\ ret.out.satrecCall = NoSatrecCall
    /\ ret.out.error \in {"Invalid TLE format. Please check the TLE data.",
                          "Invalid OMM format. Please check the OMM data."}
    /\ "shown" \notin DOMAIN ret
    /\ ~ENABLED ShowResults
    /\ timers = {} /\ inflight = <<>>

\* A pair of lines starting with "1 " and "2 " that validateTLE rejects
\* was submitted and nothing was handed to the propagation library.
C21_Witness ==
  /\ arg.fn = "submit" /\ ret.done
  /\ ret.out.isTLE
  /\ failedValidation(ret.out, trimmedLines(trim(arg.text)), parseData(trim(arg.text)))
  /\ startsWith(trimmedLines(trim(arg.text))[2], <<"2", " ">>)
  /\ ret.out.satrecCall = NoSatrecCall

\* C28: a submission that was calculated is displayed under the format
\* detected at submission, and each tick of its view recomputes it under
\* that format: twoline2satrec for TLE, json2satrec for OMM.
C28_FormatKept ==
  (arg.fn = "submit" /\ ret.done /\ "shown" \in DOMAIN ret) =>
    /\ ret.shown.isTLE <=> ret.out.isTLE
    /\ ret.shown.tick.ok
    /\ ret.shown.tick.res.fn = (IF ret.out.isTLE THEN "twoline2satrec" ELSE "json2satrec")

\* ---------------------------------------------------------------------
\* The computation and its failures
\* ---------------------------------------------------------------------

\* C22: whatever the library does (an error code, null, no position, a
\* thrown error, numbers of any kind), the submit handler and a tick end
\* handled: the result displayed, or the error shown (submit) or logged
\* (tick), never uncaught, and the loading indicator is hidden again so
\* that the page takes a new submission.
C22_EveryFailureHandled ==
  (arg.fn = "calculate" /\ ret.done /\ ret.handled # "pending") =>
    /\ ret.handled = (IF ret.out.ok THEN "displayed"
                      ELSE IF arg.caller = "submit" THEN "error shown"
                      ELSE "error logged")
    /\ ~ret.loading
    /\ inputVisible /\ timers = {} /\ inflight = <<>>

\* A tick whose propagate threw an error ended with the error logged.
C22_Witness ==
  /\ arg.fn = "calculate" /\ arg.caller = "tick" /\ arg.c.pv.kind = "throws"
  /\ ret.done /\ ~ret.out.ok
  /\ ret.handled = "error logged"

\* C23: calculateSatellitePosition throws, and returns no result record,
\* whenever propagate gives no result or a component of the position, the
\* azimuth, the elevation, the range, the right ascension or the
\* declination is NaN or infinite.
C23_NonFiniteIsFailure ==
  (arg.fn = "calculate" /\ ret.done /\ arg.c.satrec = "ok") =>
    LET c == arg.c
        noResult == c.pv.kind # "position"
        nonFinite ==
          \/ c.pv.x # "finite" \/ c.pv.y # "finite" \/ c.pv.z # "finite"
          \/ c.look.azimuth # "finite" \/ c.look.elevation # "finite"
          \/ c.look.rangeSat # "finite"
    IN  (noResult \/ nonFinite) => ~ret.out.ok

\* C24: the right ascension of a result lies in [0, 360): it is the angle
\* of atan2 plus 360 when that angle is negative, and the angle itself
\* otherwise.
C24_RightAscensionInRange ==
  (arg.fn = "calculate" /\ ret.done /\ ret.out.ok) =>
    LET ra == ret.out.res.rightAscension
    IN  /\ ra.cls = "finite"
        /\ ra.deg > 0 \/ (ra.deg = 0 /\ ra.m >= 0)
        /\ ra.deg < 360 \/ (ra.deg = 360 /\ ra.m < 0)

\* ---------------------------------------------------------------------
\* The observer location
\* ---------------------------------------------------------------------

\* C26: the observer location always has its latitude within [-90, 90]
\* and its longitude within [-180, 180] degrees; a manual entry with a
\* field that is no number or with a latitude or longitude out of range
\* is rejected and leaves the location as it was; an accepted manual
\* entry, the default button and a geolocation result each replace the
\* name, latitude, longitude and height together.
C26_LocationValid ==
  /\ [](/\ currentObserverLocation.latitude \in -90000..90000
        /\ currentObserverLocation.longitude \in -180000..180000)
  /\ [][ /\ (lastStep'.op = "useManualLocation" /\ lastStep'.outcome # "set") =>
              currentObserverLocation' = currentObserverLocation
         /\ (lastStep'.op = "useManualLocation" /\ lastStep'.outcome = "set") =>
              \E m \in ManualInputs :
                /\ ~m.lat.nan /\ ~m.lon.nan /\ ~m.alt.nan
                /\ m.lat.v \in -90000..90000 /\ m.lon.v \in -180000..180000
                /\ currentObserverLocation' =
                     [name |-> "Manual Coordinates", latitude |-> m.lat.v,
                      longitude |-> m.lon.v, height |-> m.alt.v]
         /\ lastStep'.op = "useDefaultLocation" =>
              currentObserverLocation' = DEFAULT_LOCATION
         /\ lastStep'.op = "geolocationSuccess" =>
              \E p \in BrowserPositions :
                /\ currentObserverLocation'.name = "Browser Location"
                /\ currentObserverLocation'.latitude = p.latitude
                /\ currentObserverLocation'.longitude = p.longitude
         /\ currentObserverLocation' # currentObserverLocation =>
              lastStep'.outcome = "set" ]_vars

\* A manual entry was rejected while a location other than the default
\* was selected.
C26_Witness ==
  /\ lastStep.op = "useManualLocation"
  /\ lastStep.outcome = "Longitude must be between -180 and 180 degrees"
  /\ currentObserverLocation.name = "Browser Location"

\* C30: the observer location is the one of the location action started
\* last: a geolocation result does not replace a manual or default
\* location selected after the request was made.
C30_LatestSelectionKept ==
  /\ geolocation.latest = "manual" => currentObserverLocation.name = "Manual Coordinates"
  /\ geolocation.latest = "default" => currentObserverLocation = DEFAULT_LOCATION

\* ---------------------------------------------------------------------
\* Determinism under a fixed time
\* ---------------------------------------------------------------------

\* C25: two computations made with a fixed time selected, on the same
\* data, for the same observer location and the same fixed time, give the
\* same outcome, whatever the clock read at each and whatever was computed
\* or selected before and between them.
C25_FixedTimeDeterministic ==
  (arg.fn = "recompute" /\ ret.done) =>
    \A i, j \in 1..Len(ret.log) :
      (ret.log[i].time = ret.log[j].time /\ ret.log[i].obs = ret.log[j].obs) =>
        ret.log[i].out = ret.log[j].out

\* The data was computed twice for the same location and fixed time, with
\* the clock reading differently, and gave a result.
C25_Witness ==
  /\ arg.fn = "recompute" /\ ret.done /\ Len(ret.log) = 2
  /\ ret.log[1].time # NoTime
  /\ ret.log[1].time = ret.log[2].time
  /\ ret.log[1].obs = ret.log[2].obs
  /\ ret.log[1].now # ret.log[2].now
  /\ ret.log[1].out.ok

====
